---- MODULE Spec2Model ----
(***************************************************************************)
(* pewpi-shared: wallet, token and auth services, the IntegrationListener  *)
(* event queue and the MachineAdapter state machine.                       *)
(*                                                                         *)
(* JavaScript runs one synchronous segment at a time; an async method runs *)
(* synchronously up to its first await and is resumed later.  Every action *)
(* below is one such segment: the code between two awaits of one call,     *)
(* together with every synchronous call it makes (persist, notify, the     *)
(* listener bridge into the event queue, the first callback of a drain).   *)
(* Segments are written as operators from a state record to a state record *)
(* so that nested synchronous calls compose; Commit assigns the record to  *)
(* the variables.                                                          *)
(***************************************************************************)
EXTENDS Integers, Sequences, FiniteSets, TLC

\* ---------------------------------------------------------------- bounds
MaxAmount == 2
MaxCalls == 3
MaxEmits == 2
MaxRegs == 2
MaxChanges == 102
MaxMoves == 5
MaxFaults == 1

\* amounts handed to the wallet: an invalid one (0) and valid ones
Amounts == 0..MaxAmount
\* two calls can be in flight at a time
TaskIds == {1, 2}

VARIABLES
  \* WalletUnified
  balance, transactions, walletListeners, walletStore, callSeq,
  \* TokenService
  tokenCache, tokenListeners, tokenStore, tokSeq,
  \* AuthService
  currentUser, authListeners, authStore,
  \* IntegrationListener
  eventQueue, listeners, isProcessing, drains, evtSeq,
  \* MachineAdapter
  currentState, stateHistory, transitions, integration,
  \* calls in flight (one record per async call awaiting resumption)
  task,
  \* environment: whether storage writes may throw; calls made so far
  storageFlaky, nCalls, nRegs,
  \* the token service the wallet was built with (part_000 8) and the
  \* services the adapter was built with (adapter.js 9-14)
  tokenService, services,
  \* the PewpiShared loader (auth-service.js 131-134) with its initialize calls
  loader,
  \* this.maxHistorySize of the adapter (adapter.js 17)
  historySize,
  \* history variables used only by the properties
  ilog, dispatched, lastDispatch, lastNotify, allChanges, regOrder,
  raised, live,
  \* flips whenever a call that was awaiting is resumed
  tick

vars == << balance, transactions, walletListeners, walletStore, callSeq,
           tokenCache, tokenListeners, tokenStore, tokSeq,
           currentUser, authListeners, authStore,
           eventQueue, listeners, isProcessing, drains, evtSeq,
           currentState, stateHistory, transitions, integration,
           task, storageFlaky, nCalls, nRegs,
           tokenService, services,
           loader,
           historySize,
           ilog, dispatched, lastDispatch, lastNotify, allChanges,
           regOrder, raised, live, tick >>

\* The program state as one record; exc is the exception in flight in the
\* current synchronous segment (never set between segments), ret the error
\* of the result a service method has just returned ("none": success).
Cur ==
  [ balance |-> balance, transactions |-> transactions,
    walletListeners |-> walletListeners, walletStore |-> walletStore,
    tokenCache |-> tokenCache, tokenListeners |-> tokenListeners,
    tokenStore |-> tokenStore, callSeq |-> callSeq, tokSeq |-> tokSeq,
    currentUser |-> currentUser, authListeners |-> authListeners,
    authStore |-> authStore,
    eventQueue |-> eventQueue, listeners |-> listeners,
    isProcessing |-> isProcessing, drains |-> drains, evtSeq |-> evtSeq,
    currentState |-> currentState, stateHistory |-> stateHistory,
    transitions |-> transitions, integration |-> integration,
    task |-> task, storageFlaky |-> storageFlaky,
    nCalls |-> nCalls, nRegs |-> nRegs,
    tokenService |-> tokenService, services |-> services,
    loader |-> loader,
    historySize |-> historySize,
    ilog |-> ilog, dispatched |-> dispatched,
    lastDispatch |-> lastDispatch, lastNotify |-> lastNotify,
    allChanges |-> allChanges, regOrder |-> regOrder,
    raised |-> raised, live |-> live, tick |-> tick,
    exc |-> FALSE, ret |-> "none" ]

Commit(s) ==
  /\ balance' = s.balance /\ transactions' = s.transactions
  /\ walletListeners' = s.walletListeners /\ walletStore' = s.walletStore
  /\ tokenCache' = s.tokenCache /\ tokenListeners' = s.tokenListeners
  /\ tokenStore' = s.tokenStore
  /\ callSeq' = s.callSeq /\ tokSeq' = s.tokSeq
  /\ currentUser' = s.currentUser /\ authListeners' = s.authListeners
  /\ authStore' = s.authStore
  /\ eventQueue' = s.eventQueue /\ listeners' = s.listeners
  /\ isProcessing' = s.isProcessing /\ drains' = s.drains
  /\ evtSeq' = s.evtSeq
  /\ currentState' = s.currentState /\ stateHistory' = s.stateHistory
  /\ transitions' = s.transitions /\ integration' = s.integration
  /\ task' = s.task /\ storageFlaky' = s.storageFlaky
  /\ nCalls' = s.nCalls /\ nRegs' = s.nRegs
  /\ tokenService' = s.tokenService /\ services' = s.services
  /\ loader' = s.loader
  /\ historySize' = s.historySize
  /\ ilog' = s.ilog /\ dispatched' = s.dispatched
  /\ lastDispatch' = s.lastDispatch /\ lastNotify' = s.lastNotify
  /\ allChanges' = s.allChanges /\ regOrder' = s.regOrder
  /\ raised' = s.raised /\ live' = s.live /\ tick' = s.tick

\* ------------------------------------------------------------- utilities
\* A storage key holds << >> (getItem returns null) or << value >>, the
\* value being the string setItem was given.
Null == "null"
\* JSON.stringify(value) and JSON.parse(text) for the wallet data and the
\* token list: a text is told from the value it encodes
JsonText(value) == [json |-> value]
JsonParse(text) == text.json
\* JSON.stringify(user) and JSON.parse for a user, who is modelled by the
\* handle: the text is a string as the handle is
UserJson(handle) == "{handle:" \o handle \o "}"
Handles == {"ann"}
UserParse(text) == CHOOSE h \in Handles : UserJson(h) = text
NoTask == 0

RECURSIVE SeqRemove(_, _)
SeqRemove(s, x) ==
  IF s = << >> THEN << >>
  ELSE IF Head(s) = x THEN SeqRemove(Tail(s), x)
       ELSE << Head(s) >> \o SeqRemove(Tail(s), x)

SeqHas(s, x) == \E i \in 1..Len(s) : s[i] = x

RECURSIVE IndexOf(_, _)
IndexOf(s, x) ==
  IF s = << >> THEN 0
  ELSE IF Head(s) = x THEN 1
       ELSE LET r == IndexOf(Tail(s), x) IN IF r = 0 THEN 0 ELSE r + 1

IsPrefix(s, t) == Len(s) <= Len(t) /\ \A i \in 1..Len(s) : s[i] = t[i]

\* ------------------------------------------------------- model vocabulary
Services == {"auth", "token", "wallet", "integration"}
\* event names of the services (ui-shims.js 580-590), the adapter's
\* state_change, the custom types emit() is called with here, and the
\* type of the listener key 'auth:signin' (ui-shims.js 329)
EmitTypes == {"ping", "*"}
Types == {"auth_signin", "auth_signout", "token_created", "token_updated",
          "funds_added", "funds_deducted", "state_change", "echo", "signin"}
           \cup EmitTypes
\* a listener key 'service:type' is <<service, type>>, the key '*' is <<"*">>
AllKey == << "*" >>
PatternSet == ((Services \X (Types \cup {"*"})) \cup {AllKey})

\* callbacks handed to IntegrationListener.on(): two that return normally,
\* one that throws, one that emits a further event, and the adapter's own
Callbacks == {"cbA", "cbB", "cbThrow", "cbEmit", "adapter"}
\* listeners handed to subscribe() of a service: the IntegrationListener's
\* bridge (ui-shims.js 232-238), one that returns, one that throws
Subscribers == {"bridge", "subOk", "subBad"}

\* the data of an event: the user of an auth event, the number of the
\* history entry of a state_change; what else events carry is left out
NoData == [user |-> Null, entry |-> 0]
UserData(user) == [user |-> user, entry |-> 0]
EntryData(entry) == [user |-> Null, entry |-> entry.n]
NoEvent == [id |-> 0, service |-> "none", type |-> "none", cause |-> 0,
            data |-> NoData]
NoDispatch == [ev |-> NoEvent, inv |-> << >>, clean |-> FALSE]
NoNotify == [event |-> "none", invoked |-> 0, subscribed |-> 0,
             threw |-> FALSE, service |-> "none", called |-> << >>]

IdleTask == [op |-> "none", pc |-> "idle", arg |-> 0, kind |-> "none",
             res |-> "none", err |-> "none", call |-> 0,
             bal0 |-> 0, tx0 |-> << >>, clean |-> TRUE, tokOk |-> TRUE,
             tid |-> 0, rolled |-> FALSE, next |-> "none"]

\* a call's promise settles: {success: true, ...} or {success: false, error}.
\* Only what the caller sees is kept of a settled call.
Settle(st, t, res, err) ==
  IF t = NoTask THEN st
  ELSE [st EXCEPT !.task[t] =
          [IdleTask EXCEPT !.op = st.task[t].op, !.arg = st.task[t].arg,
                           !.kind = st.task[t].kind,
                           !.call = st.task[t].call,
                           !.pc = "done", !.res = res, !.err = err]]
Succeed(st, t) == Settle(st, t, "ok", "none")
Fail(st, t, e) == Settle(st, t, "fail", e)

\* ---------------------------------------------------- IntegrationListener
\* _dispatchEvent's pattern list (ui-shims.js 328-332)
PatternsAllFirst(ev) == << AllKey, <<ev.service, "*">>, <<ev.service, ev.type>> >>
Patterns(ev) == << <<ev.service, ev.type>>, <<ev.service, "*">>, AllKey >>

\* The position of the next callback _dispatchEvent calls after position
\* (pi, ci): the for-of over a Set is live, so it reads the current lists.
\* pi = 4 when the three patterns are exhausted.
RECURSIVE NextPos(_, _, _, _)
NextPos(ls, ev, pi, ci) ==
  IF pi > 3 THEN [pi |-> 4, ci |-> 0]
  ELSE IF ci < Len(ls[Patterns(ev)[pi]]) THEN [pi |-> pi, ci |-> ci + 1]
       ELSE NextPos(ls, ev, pi + 1, 0)

\* _processQueue's early return (ui-shims.js 308-310), negated
ProcessQueueEntersNoFlag(processing, queue) == queue # << >>
ProcessQueueEnters(processing, queue) == ~processing /\ queue # << >>

\* eventQueue.push (ui-shims.js 300) and eventQueue.shift (316)
EnqueueFront(queue, ev) == << ev >> \o queue
Enqueue(queue, ev) == Append(queue, ev)

RECURSIVE HandleEvent(_, _, _, _, _, _)

\* MachineAdapter._transitionTo (adapter.js 148-170), up to its await
\* options.maxHistorySize || 100 (adapter.js 17): the default
maxHistorySize == 100
PushHistoryNoLimit(history, entry, limit) == Append(history, entry)
PushHistoryKeepsOld(history, entry, limit) ==
  IF Len(history) >= limit THEN history ELSE Append(history, entry)
PushHistory(history, entry, limit) ==
  LET h == Append(history, entry)
  IN IF Len(h) > limit THEN Tail(h) ELSE h

TransitionToNoEvent(st, newState, owner, cause) ==
  Succeed([st EXCEPT !.currentState = newState,
                     !.stateHistory =
                       PushHistory(@, [from |-> st.currentState,
                                       to |-> newState,
                                       n |-> Len(st.allChanges) + 1],
                                   st.historySize),
                     !.allChanges =
                       Append(@, [from |-> st.currentState,
                                  to |-> newState,
                                  n |-> Len(st.allChanges) + 1])], owner)
TransitionTo(st, newState, owner, cause) ==
  LET entry == [from |-> st.currentState, to |-> newState,
                n |-> Len(st.allChanges) + 1]
      s1 == [st EXCEPT !.currentState = newState,
                       !.stateHistory = PushHistory(@, entry, st.historySize),
                       !.allChanges = Append(@, entry)]
  IN IF st.integration
     THEN HandleEvent(s1, "integration", "state_change", EntryData(entry),
                      owner, cause)
     ELSE Succeed(s1, owner)

\* What a callback does when called with ev, up to its first await.
Invoke(st, cb, ev) ==
  LET s1 == [st EXCEPT !.ilog = Append(@, [ev |-> ev.id, cb |-> cb,
                                          cause |-> ev.cause])]
  IN CASE cb = "cbThrow" -> [s1 EXCEPT !.exc = TRUE]
       [] cb = "cbEmit" ->
            \* integration.emit('echo') from inside a listener
            IF ev.type # "echo"
            THEN HandleEvent(s1, "integration", "echo", NoData, NoTask,
                             ev.id)
            ELSE s1
       [] cb = "adapter" ->
            \* MachineAdapter._subscribeToServices (adapter.js 134-141)
            IF ev.type = "auth_signin"
            THEN TransitionTo(s1, "authenticated", NoTask, ev.id)
            ELSE IF ev.type = "auth_signout"
                 THEN TransitionTo(s1, "initialized", NoTask, ev.id)
                 ELSE s1
       [] OTHER -> s1

\* try { await callback(event) } catch { log } (ui-shims.js 338-342)
DispatchCallNoCatch(st, cb, ev) == Invoke(st, cb, ev)
DispatchCall(st, cb, ev) == [Invoke(st, cb, ev) EXCEPT !.exc = FALSE]

\* The drain k leaves _processQueue: finally { isProcessing = false }
\* (ui-shims.js 319-321); the _handleEvent that awaited it settles.
LeaveDrainKeepsFlag(st, k, ok) ==
  LET d == st.drains[k]
      s1 == [st EXCEPT !.drains = SubSeq(@, 1, k - 1)
                                    \o SubSeq(@, k + 1, Len(@))]
  IN IF ok THEN Succeed(s1, d.owner)
     ELSE Fail(s1, d.owner, "listener error")
LeaveDrain(st, k, ok) ==
  LET d == st.drains[k]
      s1 == [st EXCEPT !.isProcessing = FALSE,
                       !.drains = SubSeq(@, 1, k - 1)
                                    \o SubSeq(@, k + 1, Len(@))]
  IN IF ok THEN Succeed(s1, d.owner)
     ELSE Fail(s1, d.owner, "listener error")

\* Calls the callback at the drain's next position, or parks the drain at
\* pi = 4 when there is none left (the await of _dispatchEvent's result).
CallNext(st, k) ==
  LET d == st.drains[k]
      pos == NextPos(st.listeners, d.ev, d.pi, d.ci)
  IN IF pos.pi <= 3
     THEN LET cb == st.listeners[Patterns(d.ev)[pos.pi]][pos.ci]
              s1 == [st EXCEPT !.drains[k].pi = pos.pi,
                               !.drains[k].ci = pos.ci,
                               !.drains[k].inv = Append(@, cb)]
              s2 == DispatchCall(s1, cb, d.ev)
          IN IF s2.exc THEN LeaveDrain([s2 EXCEPT !.exc = FALSE], k, FALSE)
             ELSE s2
     ELSE [st EXCEPT !.drains[k].pi = 4]

\* while (eventQueue.length > 0) { event = shift(); await dispatch }
\* (ui-shims.js 315-318): one turn of the loop, up to the next await.
TakeFirst(queue) == [ev |-> Head(queue), rest |-> Tail(queue)]

LoopTurn(st, k) ==
  IF st.eventQueue = << >> THEN LeaveDrain(st, k, TRUE)
  ELSE LET tk == TakeFirst(st.eventQueue)
           s1 == [st EXCEPT !.eventQueue = tk.rest,
                            !.dispatched = Append(@, tk.ev.id),
                            !.drains[k].ev = tk.ev,
                            !.drains[k].pi = 1,
                            !.drains[k].ci = 0,
                            !.drains[k].inv = << >>,
                            !.drains[k].clean = TRUE]
       IN CallNext(s1, k)

\* _processQueue (ui-shims.js 307-322) called on behalf of owner
ProcessQueue(st, owner) ==
  IF ~ProcessQueueEnters(st.isProcessing, st.eventQueue)
  THEN Succeed(st, owner)
  ELSE LET d == [owner |-> owner, ev |-> NoEvent, pi |-> 4, ci |-> 0,
                 inv |-> << >>, clean |-> TRUE]
           s1 == [st EXCEPT !.isProcessing = TRUE,
                            !.drains = Append(@, d)]
       IN LoopTurn(s1, Len(s1.drains))

\* _handleEvent (ui-shims.js 291-302); cause is the event whose callback
\* raised this one (0: raised outside a dispatch)
HandleEvent(st, service, type, data, owner, cause) ==
  LET ev == [id |-> st.evtSeq + 1, service |-> service, type |-> type,
             cause |-> cause, data |-> data]
      s1 == [st EXCEPT !.evtSeq = @ + 1,
                       !.eventQueue = Enqueue(@, ev),
                       !.raised = Append(@, ev)]
  IN ProcessQueue(s1, owner)

\* The drain k is resumed after an await: the awaited callback returned,
\* _dispatchEvent goes on, and when it has no callback left the while loop
\* takes its next turn.
ResumeDrain(st, k) ==
  LET d == st.drains[k]
      pos == NextPos(st.listeners, d.ev, d.pi, d.ci)
  IN IF pos.pi <= 3 THEN CallNext(st, k)
     ELSE LoopTurn([st EXCEPT !.lastDispatch =
                       [ev |-> d.ev, inv |-> d.inv, clean |-> d.clean]], k)


\* ------------------------------------------------- service subscriptions
Subs(st, svc) ==
  CASE svc = "wallet" -> st.walletListeners
    [] svc = "token" -> st.tokenListeners
    [] svc = "auth" -> st.authListeners

\* what a subscribed listener does when a service calls listener(event, data)
CallListenerTwice(st, svc, event, data, l) ==
  CASE l = "bridge" -> HandleEvent(HandleEvent(st, svc, event, data, NoTask,
                                               0),
                                   svc, event, data, NoTask, 0)
    [] l = "subBad" -> [st EXCEPT !.exc = TRUE]
    [] OTHER -> st
CallListener(st, svc, event, data, l) ==
  CASE l = "bridge" -> HandleEvent(st, svc, event, data, NoTask, 0)
    [] l = "subBad" -> [st EXCEPT !.exc = TRUE]
    [] OTHER -> st

\* _notifyListeners of the three services (part_000 193-201,
\* auth-service.js 102-110, ui-shims.js 779-787): forEach with a try/catch
\* around each call
RECURSIVE NotifyFrom(_, _, _, _, _)
NotifyFrom(st, svc, event, data, i) ==
  IF i > Len(Subs(st, svc)) THEN st
  ELSE LET l == Subs(st, svc)[i]
           s1 == [st EXCEPT !.lastNotify.invoked = @ + 1,
                            !.lastNotify.called = Append(@, l)]
           s2 == CallListener(s1, svc, event, data, l)
           s3 == [s2 EXCEPT !.exc = FALSE,
                            !.lastNotify.threw = @ \/ s2.exc]
       IN NotifyFrom(s3, svc, event, data, i + 1)

NotifyListeners(st, svc, event, data) ==
  NotifyFrom([st EXCEPT !.lastNotify =
                [event |-> event, invoked |-> 0,
                 subscribed |-> Len(Subs(st, svc)), threw |-> FALSE,
                 service |-> svc, called |-> << >>]],
             svc, event, data, 1)

\* subscribe(listener) { listeners.add(listener) } and the function it
\* returns (part_000 161-164, auth-service.js 94-97, ui-shims.js 750-753)
SetAdd(s, x) == IF SeqHas(s, x) THEN s ELSE Append(s, x)
SetDeleteNone(s, x) == s
SetDelete(s, x) == SeqRemove(s, x)

\* ---------------------------------------------------------- WalletUnified
\* A JavaScript value is an integer or one of undefined, NaN and a string
\* that is no numeral, each of which is encoded by an integer far from the
\* amounts.
Undefined == 0 - 1001
NaN == 0 - 1002
NotNumeral == 0 - 1003
\* typeof x === 'number'
TypeofNumber(x) == x \notin {Undefined, NotNumeral}
\* ToNumber(x)
ToNumber(x) == IF x \in {Undefined, NotNumeral} THEN NaN ELSE x
\* x < y and x <= y: false when an operand converts to NaN
JsLess(x, y) ==
  /\ ToNumber(x) # NaN /\ ToNumber(y) # NaN /\ ToNumber(x) < ToNumber(y)
JsLessEq(x, y) ==
  /\ ToNumber(x) # NaN /\ ToNumber(y) # NaN /\ ToNumber(x) <= ToNumber(y)
\* x + y and x - y of numbers
JsAdd(x, y) == IF x = NaN \/ y = NaN THEN NaN ELSE x + y
JsSub(x, y) == IF x = NaN \/ y = NaN THEN NaN ELSE x - y
\* x || 0
OrZero(x) == IF x \in {Undefined, NaN, 0} THEN 0 ELSE x
\* the number x in JSON.stringify's text and back: NaN is written as null,
\* which data.balance || 0 reads as 0 (part_000 24)
JsonNumber(x) == IF x = NaN THEN Undefined ELSE x

\* { ...token, ...updates } (ui-shims.js 736) and { id, type, amount,
\* timestamp, ...metadata } (part_000 51-57, 84-90)
Spread(token, updates) ==
  [f \in DOMAIN token |->
     IF f \in DOMAIN updates THEN updates[f] ELSE token[f]]
\* metadata = {}
NoMetadata == << >>

\* typeof amount !== 'number' || amount <= 0 (part_000 47, 76)
AmountInvalid(amount) == ~TypeofNumber(amount) \/ JsLessEq(amount, 0)
\* this.balance < amount (part_000 80, 126)
InsufficientNever(bal, amount) == FALSE
Insufficient(bal, amount) == JsLess(bal, amount)

\* _persist (part_000 176-188); written is FALSE when setItem throws
PersistWallet(st, written) ==
  IF written
  THEN [st EXCEPT !.walletStore =
          << JsonText([balance |-> JsonNumber(st.balance),
                       transactions |-> st.transactions]) >>]
  ELSE st

\* transactions.push(transaction) (part_000 60, 93)
PushTxFront(txs, tx) == << tx >> \o txs
PushTx(txs, tx) == Append(txs, tx)

\* addFunds up to its await (part_000 45-61).  The transaction's call
\* field numbers the addFunds/deductFunds invocations and stands for its id.
AddFundsBegin(st, t, amount, metadata, written) ==
  LET c == st.callSeq + 1
      s0 == [st EXCEPT !.callSeq = c, !.task[t].call = c]
  IN IF AmountInvalid(amount) THEN Fail(s0, t, "Invalid amount")
     ELSE LET tx == Spread([call |-> c, type |-> "credit",
                             amount |-> amount, purpose |-> "none"],
                            metadata)
              s1 == [s0 EXCEPT !.balance = JsAdd(@, amount),
                               !.transactions = PushTx(@, tx),
                               !.task[t].pc = "addNotify"]
          IN PersistWallet(s1, written)

\* deductFunds up to its await (part_000 74-94)
DeductFundsBegin(st, t, amount, metadata, written) ==
  LET c == st.callSeq + 1
      s0 == [st EXCEPT !.callSeq = c, !.task[t].call = c]
  IN IF AmountInvalid(amount) THEN Fail(s0, t, "Invalid amount")
     ELSE IF Insufficient(st.balance, amount)
          THEN Fail(s0, t, "Insufficient funds")
          ELSE LET tx == Spread([call |-> c, type |-> "debit",
                                  amount |-> amount, purpose |-> "none"],
                                 metadata)
                   s1 == [s0 EXCEPT !.balance = JsSub(@, amount),
                                    !.transactions = PushTx(@, tx),
                                    !.task[t].pc = "deductNotify"]
               IN PersistWallet(s1, written)

\* purchaseToken up to its first await (part_000 119-133)
PurchaseBegin(st, t, value, written) ==
  LET amount == OrZero(value)
      s0 == [st EXCEPT !.task[t].bal0 = st.balance,
                       !.task[t].tx0 = st.transactions,
                       !.task[t].clean = TRUE]
  IN IF st.tokenService = "none"
     THEN Fail(s0, t, "Token service not configured")
     ELSE IF Insufficient(st.balance, amount)
          THEN Fail(s0, t, "Insufficient funds")
          ELSE DeductFundsBegin(s0, t, amount,
                                [purpose |-> "token_purchase"], written)


\* ----------------------------------------------------------- TokenService
\* tokenCache is a Map in insertion order: a sequence of tokens, one per key
CacheHas(cache, id) == \E i \in 1..Len(cache) : cache[i].key = id
CacheSet(cache, id, token) ==
  IF CacheHas(cache, id)
  THEN [i \in 1..Len(cache) |->
          IF cache[i].key = id THEN [key |-> id, token |-> token]
          ELSE cache[i]]
  ELSE Append(cache, [key |-> id, token |-> token])

\* _persistTokens (ui-shims.js 765-774)
PersistTokens(st, written) ==
  IF written
  THEN [st EXCEPT !.tokenStore =
          << JsonText([i \in 1..Len(st.tokenCache) |->
                         st.tokenCache[i].token]) >>]
  ELSE st

\* createToken up to its await (ui-shims.js 681-692).  id = 0: tokenData
\* has no id and one is generated.  fault: building the token throws, which
\* the method's catch turns into {success: false}.
CreateTokenBegin(st, t, id, value, fault, written) ==
  IF fault
  THEN IF st.task[t].op = "purchaseToken"
       THEN [st EXCEPT !.task[t].tokOk = FALSE,
                       !.task[t].pc = "purchaseAfterToken"]
       ELSE Fail(st, t, "token error")
  ELSE LET gen == id = 0
           tid == IF gen THEN 100 + st.tokSeq + 1 ELSE id
           token == [id |-> tid, value |-> value]
           s1 == [st EXCEPT !.tokSeq = IF gen THEN @ + 1 ELSE @,
                            !.tokenCache = CacheSet(@, token.id, token),
                            !.task[t].tid = tid,
                            !.task[t].pc = "tokenNotify"]
       IN PersistTokens(s1, written)

\* purchaseToken once tokenResult is known (part_000 141-151): the rollback
\* is addFunds up to its await
PurchaseResumeNoRollback(st, t, written) ==
  IF ~st.task[t].tokOk
  THEN [Fail(st, t, "token error") EXCEPT !.task[t].rolled = TRUE,
                                          !.task[t].clean = st.task[t].clean]
  ELSE Succeed(st, t)
PurchaseResume(st, t, written) ==
  IF ~st.task[t].tokOk
  THEN AddFundsBegin(st, t, OrZero(st.task[t].arg),
                     [purpose |-> "token_purchase_rollback"], written)
  ELSE Succeed(st, t)

\* ------------------------------------------------------------ PewpiShared
\* initServices (auth-service.js 182-188)
ServiceOrderSwapped ==
  << "token", "auth", "wallet", "integration", "machine" >>
ServiceOrder == << "auth", "token", "wallet", "integration", "machine" >>
ServiceNames == { ServiceOrder[i] : i \in 1..Len(ServiceOrder) }
\* the calls of PewpiShared.initialize: a manual call and the auto-init timer
LoaderIds == {1, 2}

\* A call of initialize: results is its results object, set numbers the
\* service instances it constructed, i is the position in initServices of
\* the service whose initialize() it awaits.
NoLoad ==
  [pc |-> "idle", i |-> 0, set |-> 0, success |-> TRUE, message |-> "none",
   results |-> [n \in ServiceNames |-> "none"], errors |-> << >>]
\* The loader: initialized and services are its fields (services[n] = 0:
\* no entry, else the instance set the service belongs to); classes are the
\* service classes that are loaded, ctorThrows tells whether a constructor
\* throws; built counts the instance sets constructed, initLog lists the
\* initialize() calls made on services and faults counts those that failed.
NoLoader ==
  [initialized |-> FALSE, services |-> [n \in ServiceNames |-> 0],
   classes |-> ServiceNames, ctorThrows |-> FALSE,
   calls |-> [c \in LoaderIds |-> NoLoad], built |-> 0, initLog |-> << >>,
   faults |-> 0]

\* the loop over initServices from position i up to the next await
\* (auth-service.js 190-204): a service without initialize is the object
\* built in place of a class that is not loaded
RECURSIVE LoaderLoop(_, _, _)
LoaderLoop(st, c, i) ==
  IF i > Len(ServiceOrder)
  THEN [st EXCEPT !.loader.initialized = TRUE,
                  !.loader.calls[c].pc = "done",
                  !.loader.calls[c].i = 0]
  ELSE LET n == ServiceOrder[i]
       IN IF n \in st.loader.classes
          THEN [st EXCEPT
                  !.loader.calls[c].pc = "await",
                  !.loader.calls[c].i = i,
                  !.loader.initLog =
                     Append(@, [set |-> st.loader.calls[c].set, name |-> n])]
          ELSE LoaderLoop(
                 [st EXCEPT !.loader.calls[c].results[n] = "not_available"],
                 c, i + 1)

\* the outer catch (auth-service.js 214-219)
LoaderCatch(st, c) ==
  [st EXCEPT !.loader.calls[c] =
     [@ EXCEPT !.pc = "done", !.success = FALSE,
               !.errors = Append(@, "general")]]

\* initialize up to its first await (auth-service.js 152-193).  The wallet
\* is built with the token service object and the adapter with every
\* service object, which are objects without methods for the classes that
\* are not loaded.
LoaderBegin(st, c) ==
  IF st.loader.initialized
  THEN [st EXCEPT !.loader.calls[c] =
          [NoLoad EXCEPT !.pc = "done", !.message = "Already initialized"]]
  ELSE IF st.loader.ctorThrows
       THEN LoaderCatch(st, c)
       ELSE LoaderLoop(
              [st EXCEPT
                 !.loader.built = @ + 1,
                 !.loader.calls[c] =
                    [NoLoad EXCEPT !.set = st.loader.built + 1],
                 !.tokenService = IF "token" \in st.loader.classes
                                  THEN "TokenService" ELSE "placeholder",
                 !.services = {"auth", "token", "wallet"},
                 !.integration = TRUE],
              c, 1)

\* initialize after service.initialize() has returned {success: true}
\* ("ok"), {success: false} ("fail") or has thrown ("throw")
\* (auth-service.js 193-203)
InitOutcomes == {"ok", "fail", "throw"}
LoaderResumed(st, c, outcome) ==
  LET i == st.loader.calls[c].i
      n == ServiceOrder[i]
      s0 == [st EXCEPT !.loader.faults =
                         IF outcome = "ok" THEN @ ELSE @ + 1]
      s1 == IF outcome = "throw"
            THEN [s0 EXCEPT !.loader.calls[c].results[n] = "error",
                            !.loader.calls[c].errors = Append(@, n)]
            ELSE [s0 EXCEPT !.loader.calls[c].results[n] =
                               IF outcome = "ok" THEN "initialized"
                               ELSE "failed",
                            !.loader.services[n] = st.loader.calls[c].set]
  IN LoaderLoop(s1, c, i + 1)

\* ------------------------------------------------------ initial state
InitState ==
  [ balance |-> 0, transactions |-> << >>, walletListeners |-> << >>,
    walletStore |-> << >>, callSeq |-> 0,
    tokenCache |-> << >>, tokenListeners |-> << >>, tokenStore |-> << >>,
    tokSeq |-> 0,
    currentUser |-> Null, authListeners |-> << >>, authStore |-> << >>,
    eventQueue |-> << >>, listeners |-> [p \in PatternSet |-> << >>],
    isProcessing |-> FALSE, drains |-> << >>, evtSeq |-> 0,
    currentState |-> "idle", stateHistory |-> << >>, transitions |-> {},
    integration |-> FALSE,
    task |-> [t \in TaskIds |-> IdleTask],
    storageFlaky |-> FALSE, nCalls |-> 0, nRegs |-> 0,
    tokenService |-> "TokenService", services |-> {"auth"},
    loader |-> NoLoader,
    historySize |-> maxHistorySize,
    ilog |-> << >>, dispatched |-> << >>, lastDispatch |-> NoDispatch,
    lastNotify |-> NoNotify, allChanges |-> << >>, regOrder |-> << >>,
    raised |-> << >>, live |-> {}, tick |-> FALSE ]

Assign(s) ==
  /\ balance = s.balance /\ transactions = s.transactions
  /\ walletListeners = s.walletListeners /\ walletStore = s.walletStore
  /\ callSeq = s.callSeq
  /\ tokenCache = s.tokenCache /\ tokenListeners = s.tokenListeners
  /\ tokenStore = s.tokenStore /\ tokSeq = s.tokSeq
  /\ currentUser = s.currentUser /\ authListeners = s.authListeners
  /\ authStore = s.authStore
  /\ eventQueue = s.eventQueue /\ listeners = s.listeners
  /\ isProcessing = s.isProcessing /\ drains = s.drains
  /\ evtSeq = s.evtSeq
  /\ currentState = s.currentState /\ stateHistory = s.stateHistory
  /\ transitions = s.transitions /\ integration = s.integration
  /\ task = s.task /\ storageFlaky = s.storageFlaky
  /\ nCalls = s.nCalls /\ nRegs = s.nRegs
  /\ tokenService = s.tokenService /\ services = s.services
  /\ loader = s.loader
  /\ historySize = s.historySize
  /\ ilog = s.ilog /\ dispatched = s.dispatched
  /\ lastDispatch = s.lastDispatch /\ lastNotify = s.lastNotify
  /\ allChanges = s.allChanges /\ regOrder = s.regOrder
  /\ raised = s.raised /\ live = s.live /\ tick = s.tick

\* ------------------------------------------------------------ calls
\* A call may be made whenever a slot is free; at most MaxCalls are made.
Settled(t) == task[t].pc \in {"idle", "done"}
FreeFor(t, max) ==
  /\ Settled(t)
  /\ \A u \in TaskIds : u < t => ~Settled(u)
  /\ nCalls < max
Free(t) == FreeFor(t, MaxCalls)
\* setItem may throw only with a storage that fails
WriteOutcomes == IF storageFlaky THEN BOOLEAN ELSE {TRUE}
\* a step of call t is interleaved into every other call in flight
Touch(st, t) ==
  [st EXCEPT !.task = [u \in TaskIds |->
                         IF u # t /\ @[u].op = "purchaseToken"
                                  /\ @[u].pc # "done"
                         THEN [@[u] EXCEPT !.clean = FALSE]
                         ELSE @[u]]]
\* call t is resumed after an await
Resumed(st, t) == Touch([st EXCEPT !.tick = ~@], t)
NewCall(st, t, op, arg) ==
  Touch([st EXCEPT !.nCalls = @ + 1,
                   !.task[t] = [IdleTask EXCEPT !.op = op, !.arg = arg]], t)

\* wallet.addFunds(amount, metadata)
CallAddFundsWith(t, amount, metadata) ==
  /\ Free(t)
  /\ \E w \in WriteOutcomes :
       Commit(AddFundsBegin(NewCall(Cur, t, "addFunds", amount), t, amount,
                            metadata, w))
\* wallet.addFunds(amount)
CallAddFunds(t, amount) == CallAddFundsWith(t, amount, NoMetadata)

\* wallet.deductFunds(amount, metadata)
CallDeductFundsWith(t, amount, metadata) ==
  /\ Free(t)
  /\ \E w \in WriteOutcomes :
       Commit(DeductFundsBegin(NewCall(Cur, t, "deductFunds", amount), t,
                               amount, metadata, w))
\* wallet.deductFunds(amount)
CallDeductFunds(t, amount) == CallDeductFundsWith(t, amount, NoMetadata)

\* wallet.purchaseToken({value})
CallPurchaseToken(t, value) ==
  /\ Free(t)
  /\ \E w \in WriteOutcomes :
       Commit(PurchaseBegin(NewCall(Cur, t, "purchaseToken", value), t,
                            value, w))

\* addFunds after its await (part_000 62-64); inside purchaseToken it is the
\* rollback, after which purchaseToken returns tokenResult (143-144)
AddFundsNotify(t) ==
  /\ task[t].pc = "addNotify"
  /\ LET s1 == NotifyListeners(Resumed(Cur, t), "wallet", "funds_added",
                                NoData)
     IN Commit(IF s1.exc
               THEN Fail([s1 EXCEPT !.exc = FALSE], t, "listener error")
               ELSE IF task[t].op = "purchaseToken"
                    THEN [Fail(s1, t, "token error") EXCEPT
                            !.task[t].rolled = TRUE,
                            !.task[t].clean = task[t].clean]
                    ELSE Succeed(s1, t))

\* deductFunds after its await (part_000 95-97); inside purchaseToken the
\* caller goes on to createToken (135-139)
DeductFundsNotify(t) ==
  /\ task[t].pc = "deductNotify"
  /\ LET s1 == NotifyListeners(Resumed(Cur, t), "wallet", "funds_deducted",
                                NoData)
     IN Commit(IF s1.exc
               THEN Fail([s1 EXCEPT !.exc = FALSE], t, "listener error")
               ELSE IF task[t].op = "purchaseToken"
                    THEN [s1 EXCEPT !.task[t].pc = "createToken"]
                    ELSE Succeed(s1, t))

\* What options.tokenService may be (part_000 8): a TokenService, the
\* object without methods that the loader builds when the class is not
\* loaded (auth-service.js 166), an object whose createToken throws, or
\* nothing
TokenServiceKinds == {"TokenService", "placeholder", "throwing", "none"}
\* this.tokenService.createToken(tokenData) throws (part_000 139): a
\* TypeError when the object has no such method
CreateTokenThrows(kind) == kind \in {"placeholder", "throwing"}
\* purchaseToken's catch (part_000 152-155)
PurchaseCatch(st, t) == Fail(st, t, "createToken error")

\* purchaseToken calls tokenService.createToken(tokenData) (part_000 139)
PurchaseCreateToken(t) ==
  /\ task[t].pc = "createToken"
  /\ IF CreateTokenThrows(tokenService)
     THEN Commit(PurchaseCatch(Resumed(Cur, t), t))
     ELSE \E fault \in BOOLEAN, w \in WriteOutcomes :
            Commit(CreateTokenBegin(Resumed(Cur, t), t, 0, task[t].arg,
                                    fault, w))

\* tokenService.createToken({value}) called directly: an id is generated
CallCreateToken(t, value) ==
  /\ Free(t)
  /\ \E fault \in BOOLEAN, w \in WriteOutcomes :
       Commit(CreateTokenBegin(NewCall(Cur, t, "createToken", value), t, 0,
                               value, fault, w))

\* createToken after its await (ui-shims.js 693-695)
CreateTokenNotify(t) ==
  /\ task[t].pc = "tokenNotify"
  /\ LET s1 == NotifyListeners(Resumed(Cur, t), "token", "token_created",
                                NoData)
     IN Commit(IF s1.exc
               THEN IF task[t].op = "purchaseToken"
                    THEN [s1 EXCEPT !.exc = FALSE, !.task[t].tokOk = FALSE,
                                    !.task[t].pc = "purchaseAfterToken"]
                    ELSE Fail([s1 EXCEPT !.exc = FALSE], t, "listener error")
               ELSE IF task[t].op = "purchaseToken"
                    THEN [s1 EXCEPT !.task[t].tokOk = TRUE,
                                    !.task[t].pc = "purchaseAfterToken"]
                    ELSE Succeed(s1, t))

\* purchaseToken after createToken (part_000 141-151)
PurchaseAfterToken(t) ==
  /\ task[t].pc = "purchaseAfterToken"
  /\ \E w \in WriteOutcomes : Commit(PurchaseResume(Resumed(Cur, t), t, w))

\* wallet.initialize() (part_000 18-33): reloads what _persist stored
WalletInitializeBody(st) ==
  IF st.walletStore = << >> THEN st
  ELSE LET data == JsonParse(st.walletStore[1])
       IN [st EXCEPT !.balance = OrZero(data.balance),
                     !.transactions = data.transactions]
WalletInitialize ==
  /\ walletStore # << >>
  /\ Commit(WalletInitializeBody(Cur))

\* new WalletUnified({storage, tokenService}) (part_000 7-13)
WalletConstruct(st) ==
  [st EXCEPT !.balance = 0, !.transactions = << >>,
             !.walletListeners = << >>]

\* subscribe(listener) of a service and the unsubscribe function it
\* returned; at most MaxRegs such calls are made
\* the listeners of a service are recorded under the key of the service
SubKey(svc) == << svc, "subscribe" >>
WithSubs(st, svc, ls) ==
  CASE svc = "wallet" -> [st EXCEPT !.walletListeners = ls]
    [] svc = "token" -> [st EXCEPT !.tokenListeners = ls]
    [] svc = "auth" -> [st EXCEPT !.authListeners = ls]
Subscribe(svc, l) ==
  /\ nRegs < MaxRegs
  /\ Commit([WithSubs(Cur, svc, SetAdd(Subs(Cur, svc), l)) EXCEPT
              !.live = @ \cup {<< SubKey(svc), l >>},
              !.nRegs = @ + 1])
Unsubscribe(svc, l) ==
  /\ nRegs < MaxRegs
  /\ << SubKey(svc), l >> \in live
  /\ Commit([WithSubs(Cur, svc, SetDelete(Subs(Cur, svc), l)) EXCEPT
              !.live = @ \ {<< SubKey(svc), l >>},
              !.nRegs = @ + 1])

\* ------------------------------------------------------------ the wallet
\* the listeners subscribed before the calls: none, or one that throws
\* followed by one that returns
InitWallet ==
  \E ls \in {<< >>, << "subBad", "subOk" >>} :
     Assign([InitState EXCEPT !.walletListeners = ls, !.tokenListeners = ls])

NextWallet ==
  \/ \E t \in TaskIds, a \in Amounts : CallAddFunds(t, a)
  \/ \E t \in TaskIds, a \in Amounts : CallDeductFunds(t, a)
  \/ \E t \in TaskIds, v \in Amounts : CallPurchaseToken(t, v)
  \/ \E t \in TaskIds : AddFundsNotify(t)
  \/ \E t \in TaskIds : DeductFundsNotify(t)
  \/ \E t \in TaskIds : PurchaseCreateToken(t)
  \/ \E t \in TaskIds : CreateTokenNotify(t)
  \/ \E t \in TaskIds : PurchaseAfterToken(t)
  \/ WalletInitialize

SpecWallet == InitWallet /\ [][NextWallet]_vars


\* ------------------------------------------------------------ AuthService
\* signIn (auth-service.js 35-55); creds = "none": no credentials object.
\* The whole method is one synchronous segment.
SignInBody(st, creds, written) ==
  IF creds = "none" THEN [st EXCEPT !.ret = "no credentials"]
  ELSE LET s1 == [st EXCEPT !.currentUser = creds]
       IN IF ~written THEN [s1 EXCEPT !.ret = "storage error"]
          ELSE LET s2 == NotifyListeners(
                           [s1 EXCEPT !.authStore = << UserJson(creds) >>],
                           "auth", "auth_signin", UserData(creds))
               IN IF s2.exc
                  THEN [s2 EXCEPT !.exc = FALSE, !.ret = "listener error"]
                  ELSE [s2 EXCEPT !.ret = "none"]

\* signOut (auth-service.js 60-75)
SignOutBody(st, written) ==
  LET s1 == [st EXCEPT !.currentUser = Null]
  IN IF ~written THEN [s1 EXCEPT !.ret = "storage error"]
     ELSE LET s2 == NotifyListeners([s1 EXCEPT !.authStore = << >>],
                                    "auth", "auth_signout",
                                    UserData(st.currentUser))
          IN IF s2.exc
             THEN [s2 EXCEPT !.exc = FALSE, !.ret = "listener error"]
             ELSE [s2 EXCEPT !.ret = "none"]

\* the promise of a service method settles with what the method returned
Return(st, t) ==
  IF st.ret = "none" THEN Succeed(st, t)
  ELSE Fail([st EXCEPT !.ret = "none"], t, st.ret)

SignInCall(st, t, creds, written) == Return(SignInBody(st, creds, written), t)
SignOutCall(st, t, written) == Return(SignOutBody(st, written), t)

Credentials == {"none", "ann"}

SignIn(t, creds) ==
  /\ FreeFor(t, MaxEmits)
  /\ \E w \in WriteOutcomes :
       Commit(SignInCall([NewCall(Cur, t, "signIn", 0)
                            EXCEPT !.task[t].kind = creds], t, creds, w))

SignOut(t) ==
  /\ FreeFor(t, MaxEmits)
  /\ \E w \in WriteOutcomes :
       Commit(SignOutCall(NewCall(Cur, t, "signOut", 0), t, w))

\* ------------------------------------------- IntegrationListener actions
\* the patterns and callbacks on() is called with
RegPatterns == {<< "integration", "ping" >>, << "integration", "*" >>, AllKey}
RegCallbacks == {"cbA", "cbB"}

\* registrations change under a dispatch in progress: the history variables
\* that compare a dispatch with the registrations no longer apply
Unclean(st) ==
  [st EXCEPT !.lastDispatch.clean = FALSE,
             !.drains = [k \in 1..Len(@) |-> [@[k] EXCEPT !.clean = FALSE]]]

\* listeners.get(pattern).add(callback) (ui-shims.js 252-255)
Register(ls, p, cb) == [ls EXCEPT ![p] = SetAdd(@, cb)]

\* on(eventPattern, callback) (ui-shims.js 251-256)
On(p, cb) ==
  /\ nRegs < MaxRegs
  /\ Commit(Unclean([Cur EXCEPT
       !.listeners = Register(@, p, cb),
       !.regOrder = SetAdd(@, << p, cb >>),
       !.live = @ \cup {<< p, cb >>},
       !.nRegs = @ + 1]))

\* the function on() returned (ui-shims.js 257-262).  Deleting an entry the
\* for-of of a dispatch in progress has passed leaves the iterator where it
\* is: the position among the remaining entries moves down by one.
Off(p, cb) ==
  /\ nRegs < MaxRegs
  /\ SeqHas(listeners[p], cb)
  /\ LET at == IndexOf(listeners[p], cb)
         moved == [k \in 1..Len(drains) |->
                     IF /\ drains[k].pi <= 3
                        /\ Patterns(drains[k].ev)[drains[k].pi] = p
                        /\ at <= drains[k].ci
                     THEN [drains[k] EXCEPT !.ci = @ - 1]
                     ELSE drains[k]]
     IN Commit(Unclean([Cur EXCEPT
          !.listeners[p] = SetDelete(@, cb),
          !.regOrder = SetDelete(@, << p, cb >>),
          !.live = @ \ {<< p, cb >>},
          !.drains = moved,
          !.nRegs = @ + 1]))

\* emit(eventType, data) (ui-shims.js 268-276): resolves when the
\* _processQueue it awaits returns; arg keeps the id of the event emitted
Emit(t, type) ==
  /\ FreeFor(t, MaxEmits)
  /\ LET s0 == NewCall(Cur, t, "emit", 0)
         s1 == [s0 EXCEPT !.task[t].kind = type, !.task[t].pc = "awaitEmit",
                          !.task[t].arg = evtSeq + 1]
     IN Commit(HandleEvent(s1, "integration", type, NoData, t, 0))

\* a drain is resumed at its await
Resume(k) ==
  /\ k \in 1..Len(drains)
  /\ Commit(ResumeDrain([Cur EXCEPT !.tick = ~@], k))

\* ------------------------------------------------------ the event queue
RECURSIVE Registered(_)
Registered(regs) ==
  IF regs = << >> THEN [p \in PatternSet |-> << >>]
  ELSE Register(Registered(SubSeq(regs, 1, Len(regs) - 1)),
                regs[Len(regs)][1], regs[Len(regs)][2])

\* The calls of on() made before the events arrive: none; or a callback
\* that throws before one that returns under 'integration:ping' and one that
\* emits under '*'; or one that emits under 'integration:*' and under '*',
\* between one that throws and one that returns.
ListenerSetups ==
  { << >>,
    << << << "integration", "ping" >>, "cbThrow" >>,
       << << "integration", "ping" >>, "cbA" >>,
       << AllKey, "cbEmit" >> >>,
    << << AllKey, "cbThrow" >>,
       << << "integration", "*" >>, "cbEmit" >>,
       << AllKey, "cbEmit" >>,
       << AllKey, "cbA" >> >> }

\* IntegrationListener.initialize() has subscribed its bridge to the three
\* services (ui-shims.js 231-245), between two listeners of the application
ServiceListeners == << "subBad", "bridge", "subOk" >>

InitEvents ==
  \E regs \in ListenerSetups :
    Assign([InitState EXCEPT
              !.authListeners = ServiceListeners,
              !.walletListeners = ServiceListeners,
              !.tokenListeners = ServiceListeners,
              !.listeners = Registered(regs),
              !.regOrder = regs])

\* MaxEmits calls are made in all, of emit, signIn, addFunds and createToken
NextEvents ==
  \/ \E t \in TaskIds, ty \in EmitTypes : Emit(t, ty)
  \/ \E t \in TaskIds : SignIn(t, "ann")
  \/ \E t \in TaskIds : nCalls < MaxEmits /\ CallAddFunds(t, 1)
  \/ \E t \in TaskIds : AddFundsNotify(t)
  \/ \E t \in TaskIds : nCalls < MaxEmits /\ CallCreateToken(t, 1)
  \/ \E t \in TaskIds : CreateTokenNotify(t)
  \/ \E k \in 1..2 : Resume(k)

SpecEvents == InitEvents /\ [][NextEvents]_vars

\* The microtask queue runs every continuation that is ready: a drain at
\* its await, an addFunds or a createToken after its await.  The steps that
\* flip tick are exactly these resumptions.
ContinueEnabled ==
  \/ drains # << >>
  \/ \E t \in TaskIds : task[t].pc \in {"addNotify", "tokenNotify"}
Continue == ContinueEnabled /\ tick' = ~tick
FairSpecEvents == SpecEvents /\ WF_tick(Continue)

\* ---------------------------------------------------- dispatch and on()
\* on() and the functions it returns are called at any time, also between
\* two callbacks of a dispatch in progress
InitDispatch == Assign(InitState)

NextDispatch ==
  \/ \E q \in RegPatterns, cb \in RegCallbacks : On(q, cb)
  \/ \E q \in RegPatterns, cb \in RegCallbacks : Off(q, cb)
  \/ \E t \in TaskIds, ty \in EmitTypes : Emit(t, ty)
  \/ \E k \in 1..2 : Resume(k)

SpecDispatch == InitDispatch /\ [][NextDispatch]_vars

\* --------------------------------------------------------- MachineAdapter
\* The adapter is constructed with the services named by the variable
\* services and with or without the integration listener; the handler of a
\* token or wallet transition returns {error: '... not available'} when its
\* service was left out (adapter.js 104-106, 113-115, 121-123).
MachineStates == {"idle", "initialized", "authenticated"}
MachineActions == {"signin", "signout", "add_funds", "reset"}

\* _defineTransitions (adapter.js 84-127): the keys 'state:action' set
HandlersOpen ==
  { << "initialized", "signin" >>, << "authenticated", "signout" >>,
    << "authenticated", "create_token" >>, << "initialized", "add_funds" >>,
    << "authenticated", "add_funds" >>,
    << "authenticated", "purchase_token" >> }
Handlers ==
  { << "initialized", "signin" >>, << "authenticated", "signout" >>,
    << "authenticated", "create_token" >>, << "authenticated", "add_funds" >>,
    << "authenticated", "purchase_token" >> }

\* transitions.get(`${currentState}:${action}`) (adapter.js 58-61)
HasHandlerAnyState(trs, state, action) ==
  \E q \in MachineStates : << q, action >> \in trs
HasHandler(trs, state, action) == << state, action >> \in trs

\* the service a handler calls (adapter.js 104-126)
ServiceOf ==
  [create_token |-> "token", add_funds |-> "wallet",
   purchase_token |-> "wallet"]
\* the call a handler awaits runs in the slot after the adapter's
ChildOf(t) == t + 1
\* services.token.createToken(ctx), services.wallet.addFunds(ctx.amount,
\* ctx.metadata) and services.wallet.purchaseToken(ctx.tokenData) up to
\* their first await (adapter.js 108, 117, 125); ctx has no id and no
\* metadata, amount is ctx.amount or the token's value
ServiceCall(st, u, action, amount, fault, written) ==
  CASE action = "create_token" ->
         CreateTokenBegin(NewCall(st, u, "createToken", amount), u, 0,
                          amount, fault, written)
    [] action = "add_funds" ->
         AddFundsBegin(NewCall(st, u, "addFunds", amount), u, amount,
                       NoMetadata, written)
    [] action = "purchase_token" ->
         PurchaseBegin(NewCall(st, u, "purchaseToken", amount), u, amount,
                       written)

\* a handler up to its first await: next is result.nextState, err what the
\* handler returns as result.error
RunHandler(st, t, action, amount, fault, written) ==
  IF action \in DOMAIN ServiceOf /\ ServiceOf[action] \in st.services
  THEN [ServiceCall(st, ChildOf(t), action, amount, fault, written) EXCEPT
          !.task[t].pc = "awaitService",
          !.task[t].err = "none", !.task[t].next = "none"]
  ELSE
  LET s1 == CASE action = "signin" -> SignInBody(st, "ann", written)
              [] action = "signout" -> SignOutBody(st, written)
              [] OTHER -> [st EXCEPT !.ret = "service not available"]
      to == IF action = "signin" THEN "authenticated" ELSE "initialized"
  IN [s1 EXCEPT !.ret = "none",
                !.task[t].pc = "afterHandler",
                !.task[t].err = s1.ret,
                !.task[t].next = IF s1.ret = "none" THEN to ELSE "none"]

\* transition(action) up to its first await (adapter.js 56-68)
TransitionBegin(st, t, action, amount, fault, written) ==
  IF ~HasHandler(st.transitions, st.currentState, action)
  THEN Fail(st, t, "No transition")
  ELSE RunHandler(st, t, action, amount, fault, written)

\* transition(action) after the handler (adapter.js 70-74): the result is
\* {success: true, ...result}, also when the handler returned an error
TransitionResume(st, t) ==
  IF st.task[t].next # "none"
  THEN TransitionTo([st EXCEPT !.task[t].pc = "awaitEmit"],
                    st.task[t].next, t, 0)
  ELSE Settle(st, t, "ok", st.task[t].err)

\* initialize() (adapter.js 23-29) with _subscribeToServices (132-143)
InitializeBegin(st, t) ==
  LET s1 == [st EXCEPT !.transitions = @ \cup Handlers,
                       !.task[t].pc = "awaitEmit"]
      s2 == IF st.integration
            THEN [s1 EXCEPT !.listeners = Register(@, AllKey, "adapter"),
                            !.regOrder = SetAdd(@, << AllKey, "adapter" >>)]
            ELSE s1
  IN TransitionTo(s2, "initialized", t, 0)

\* The adapter is called when the call before has returned, and while fewer
\* than max state changes have happened.
MachineFree(t, max) ==
  /\ t = 1
  /\ \A u \in TaskIds : Settled(u)
  /\ Len(allChanges) < max
\* arg keeps the number of state changes made before the call
MachineCall(st, t, op, action) ==
  [st EXCEPT !.task[t] = [IdleTask EXCEPT !.op = op, !.kind = action,
                                          !.arg = Len(st.allChanges)]]

\* initialize() is called once: with an integration listener every further
\* call would register one more callback under '*'
MachineInitialize(t, max) ==
  /\ MachineFree(t, max)
  /\ transitions = {}
  /\ Commit(InitializeBegin(MachineCall(Cur, t, "initialize", "none"), t))

MachineTransition(t, action, max) ==
  /\ MachineFree(t, max)
  /\ \E w \in WriteOutcomes, a \in 1..MaxAmount, fault \in BOOLEAN :
       Commit(TransitionBegin(MachineCall(Cur, t, "transition", action), t,
                              action, a, fault, w))

\* the call the handler awaited has returned: the handler returns
\* {data: result} (adapter.js 109, 118, 126)
MachineAfterService(t) ==
  /\ task[t].pc = "awaitService"
  /\ Settled(ChildOf(t))
  /\ Commit(TransitionResume([Cur EXCEPT !.tick = ~@], t))

MachineAfterHandler(t) ==
  /\ task[t].pc = "afterHandler"
  /\ Commit(TransitionResume([Cur EXCEPT !.tick = ~@], t))

\* IntegrationListener.initialize() has subscribed its bridge to the auth
\* service when the adapter has an integration listener
InitMachine ==
  \E int \in BOOLEAN, flaky \in BOOLEAN :
    Assign([InitState EXCEPT
              !.integration = int,
              !.storageFlaky = flaky,
              !.authListeners = IF int THEN << "bridge" >> ELSE << >>])

NextMachine ==
  \/ \E t \in TaskIds : MachineInitialize(t, MaxMoves)
  \/ \E t \in TaskIds, a \in MachineActions :
       MachineTransition(t, a, MaxMoves)
  \/ \E t \in TaskIds : MachineAfterHandler(t)
  \/ \E k \in 1..2 : Resume(k)

SpecMachine == InitMachine /\ [][NextMachine]_vars

\* --------------------------------------------- the adapter's services
\* an adapter built with the auth, token and wallet services and without
\* integration listener, as many service calls as MaxCalls
ServiceActions == {"create_token", "add_funds", "purchase_token"}
InitGuard ==
  Assign([InitState EXCEPT !.services = {"auth", "token", "wallet"}])

NextGuard ==
  \/ \E t \in TaskIds : MachineInitialize(t, MaxMoves)
  \/ \E t \in TaskIds, a \in {"signin", "signout"} :
       MachineTransition(t, a, MaxMoves)
  \/ \E t \in TaskIds, a \in ServiceActions :
       nCalls < MaxCalls /\ MachineTransition(t, a, MaxMoves)
  \/ \E t \in TaskIds : MachineAfterHandler(t)
  \/ \E t \in TaskIds : MachineAfterService(t)
  \/ \E t \in TaskIds : AddFundsNotify(t)
  \/ \E t \in TaskIds : DeductFundsNotify(t)
  \/ \E t \in TaskIds : PurchaseCreateToken(t)
  \/ \E t \in TaskIds : CreateTokenNotify(t)
  \/ \E t \in TaskIds : PurchaseAfterToken(t)

SpecGuard == InitGuard /\ [][NextGuard]_vars

\* ------------------------------------------------------ the state history
\* an adapter without integration listener, driven through more state
\* changes than the history holds
InitHistory == Assign(InitState)

NextHistory ==
  \/ \E t \in TaskIds : MachineInitialize(t, MaxChanges)
  \/ \E t \in TaskIds, a \in MachineActions :
       MachineTransition(t, a, MaxChanges)
  \/ \E t \in TaskIds : MachineAfterHandler(t)

SpecHistory == InitHistory /\ [][NextHistory]_vars

\* ------------------------------------------------- the chain of changes
\* an adapter with or without integration listener, built with
\* options.maxHistorySize = 2 and driven through more state changes than
\* the history holds: transitions asked for by the caller and, with the
\* listener, those the adapter makes on auth events
NextChain ==
  \/ \E t \in TaskIds : MachineInitialize(t, MaxMoves)
  \/ \E t \in TaskIds, a \in MachineActions :
       MachineTransition(t, a, MaxMoves)
  \/ \E t \in TaskIds : MachineAfterHandler(t)
  \/ \E k \in 1..2 : Resume(k)

InitChain ==
  \E int \in BOOLEAN, flaky \in BOOLEAN :
    Assign([InitState EXCEPT
              !.historySize = 2,
              !.storageFlaky = flaky,
              !.integration = int,
              !.authListeners = IF int THEN << "bridge" >> ELSE << >>])

SpecChain == InitChain /\ [][NextChain]_vars

\* ------------------------------------------- sessions and stored tokens
\* AuthService.initialize (auth-service.js 17-30).  getItem gives the string
\* that setItem was given, so the typeof test holds and the user becomes
\* { handle: userData }: the stored text itself is the handle.
AuthInitializeBody(st) ==
  IF st.authStore = << >> THEN st
  ELSE [st EXCEPT !.currentUser = st.authStore[1]]

\* new AuthService({storage}) (auth-service.js 7-12)
AuthConstruct(st) == [st EXCEPT !.currentUser = Null, !.authListeners = << >>]

\* isAuthenticated (auth-service.js 87-89)
IsAuthenticated(user) == user # Null

\* TokenService.initialize (ui-shims.js 662-676): every stored token is set
\* under its own id
RECURSIVE LoadTokens(_, _)
LoadTokens(cache, tokens) ==
  IF tokens = << >> THEN cache
  ELSE LoadTokens(CacheSet(cache, Head(tokens).id, Head(tokens)),
                  Tail(tokens))
TokenInitializeBody(st) ==
  IF st.tokenStore = << >> THEN st
  ELSE [st EXCEPT !.tokenCache = LoadTokens(@, JsonParse(st.tokenStore[1]))]

\* tokenCache.get(tokenId), null when there is none (ui-shims.js 707, 731)
NoToken == [id |-> 0, value |-> 0]
CacheGet(cache, id) ==
  IF CacheHas(cache, id)
  THEN (CHOOSE e \in {cache[i] : i \in 1..Len(cache)} : e.key = id).token
  ELSE NoToken

\* updateToken up to its await (ui-shims.js 729-738)
UpdateTokenFindsAny(cache, id) == TRUE
UpdateTokenFinds(cache, id) == CacheHas(cache, id)
UpdateTokenBegin(st, t, tokenId, updates, written) ==
  IF ~UpdateTokenFinds(st.tokenCache, tokenId)
  THEN Fail(st, t, "Token not found")
  ELSE LET updatedToken == Spread(CacheGet(st.tokenCache, tokenId), updates)
           s1 == [st EXCEPT !.tokenCache = CacheSet(@, tokenId, updatedToken),
                            !.task[t].tid = tokenId,
                            !.task[t].pc = "updateNotify"]
       IN PersistTokens(s1, written)

\* the token ids and the update objects of the calls
TokenIds == {101, 102}
Updates == {[value |-> 2], [id |-> 102], [id |-> 101, value |-> 0]}

\* authService.initialize() on the service in use
AuthInitialize(t) ==
  /\ Free(t)
  /\ Commit(Succeed(AuthInitializeBody(NewCall(Cur, t, "authInitialize", 0)),
                    t))

\* a new AuthService on the same storage, and its initialize()
AuthRestart(t) ==
  /\ Free(t)
  /\ \A u \in TaskIds : Settled(u)
  /\ Commit(Succeed(AuthInitializeBody(
                      AuthConstruct(NewCall(Cur, t, "authRestart", 0))), t))

\* tokenService.initialize()
TokenInitialize(t) ==
  /\ Free(t)
  /\ Commit(Succeed(TokenInitializeBody(
                      NewCall(Cur, t, "tokenInitialize", 0)), t))

\* tokenService.createToken({id, value})
CallCreateTokenWithId(t, id, value) ==
  /\ Free(t)
  /\ \E w \in WriteOutcomes :
       Commit(CreateTokenBegin(NewCall(Cur, t, "createToken", value), t, id,
                               value, FALSE, w))

\* tokenService.updateToken(tokenId, updates)
CallUpdateToken(t, tokenId, updates) ==
  /\ Free(t)
  /\ \E w \in WriteOutcomes :
       Commit(UpdateTokenBegin(NewCall(Cur, t, "updateToken", tokenId), t,
                               tokenId, updates, w))

\* updateToken after its await (ui-shims.js 739-741)
UpdateTokenNotify(t) ==
  /\ task[t].pc = "updateNotify"
  /\ Commit(Succeed(NotifyListeners(Resumed(Cur, t), "token",
                                    "token_updated", NoData), t))

\* tokenService.getToken(id) and getAllTokens() (ui-shims.js 705-724)
CallGetToken(t, id) ==
  /\ Free(t)
  /\ LET s1 == NewCall(Cur, t, "getToken", id)
     IN Commit([Succeed(s1, t) EXCEPT !.task[t].tid =
                                        CacheGet(tokenCache, id).id])
CallGetAllTokens(t) ==
  /\ Free(t)
  /\ Commit(Succeed(NewCall(Cur, t, "getAllTokens", 0), t))

\* ----------------------------------------------------------- the storage
\* the three services on one storage, which may be one whose setItem and
\* removeItem throw; each service has one subscriber
InitStorage ==
  \E flaky \in BOOLEAN :
    Assign([InitState EXCEPT !.storageFlaky = flaky,
                             !.walletListeners = << "subOk" >>,
                             !.tokenListeners = << "subOk" >>,
                             !.authListeners = << "subOk" >>])

NextStorage ==
  \/ \E t \in TaskIds : SignIn(t, "ann")
  \/ \E t \in TaskIds : SignOut(t)
  \/ \E t \in TaskIds : AuthInitialize(t)
  \/ \E t \in TaskIds : AuthRestart(t)
  \/ \E t \in TaskIds : CallAddFunds(t, 1)
  \/ \E t \in TaskIds : AddFundsNotify(t)
  \/ \E t \in TaskIds : CallDeductFunds(t, 1)
  \/ \E t \in TaskIds : DeductFundsNotify(t)
  \/ \E t \in TaskIds : CallCreateTokenWithId(t, 0, 1)
  \/ \E t \in TaskIds : CreateTokenNotify(t)
  \/ \E t \in TaskIds : CallUpdateToken(t, 101, [value |-> 2])
  \/ \E t \in TaskIds : UpdateTokenNotify(t)
  \/ WalletInitialize

SpecStorage == InitStorage /\ [][NextStorage]_vars

\* ------------------------------------------------------------ the tokens
\* a token service with one subscriber and the wallet that purchases from it
InitTokens ==
  Assign([InitState EXCEPT !.tokenListeners = << "subOk" >>])

NextTokens ==
  \/ \E t \in TaskIds, id \in {0, 102} : CallCreateTokenWithId(t, id, 1)
  \/ \E t \in TaskIds : CreateTokenNotify(t)
  \/ \E t \in TaskIds, id \in TokenIds, u \in Updates :
       CallUpdateToken(t, id, u)
  \/ \E t \in TaskIds : UpdateTokenNotify(t)
  \/ \E t \in TaskIds : TokenInitialize(t)
  \/ \E t \in TaskIds, id \in TokenIds : CallGetToken(t, id)
  \/ \E t \in TaskIds : CallGetAllTokens(t)
  \/ \E t \in TaskIds : CallAddFunds(t, 1)
  \/ \E t \in TaskIds : AddFundsNotify(t)
  \/ \E t \in TaskIds : CallPurchaseToken(t, 1)
  \/ \E t \in TaskIds : DeductFundsNotify(t)
  \/ \E t \in TaskIds : PurchaseCreateToken(t)
  \/ \E t \in TaskIds : PurchaseAfterToken(t)

SpecTokens == InitTokens /\ [][NextTokens]_vars

\* ---------------------------------------------- the integration listener
\* IntegrationListener.initialize() has subscribed its bridge to the three
\* services (ui-shims.js 228-246); on('auth:signin', cbA) and
\* on('auth:*', cbB) have been called.  The storage may be one that fails.
IntegrationSetup ==
  << << << "auth", "signin" >>, "cbA" >>, << << "auth", "*" >>, "cbB" >> >>

InitIntegration ==
  \E flaky \in BOOLEAN :
    Assign([InitState EXCEPT
              !.storageFlaky = flaky,
              !.authListeners = << "bridge" >>,
              !.walletListeners = << "bridge" >>,
              !.tokenListeners = << "bridge" >>,
              !.listeners = Registered(IntegrationSetup),
              !.regOrder = IntegrationSetup])

NextIntegration ==
  \/ \E t \in TaskIds, c \in Credentials : SignIn(t, c)
  \/ \E t \in TaskIds : SignOut(t)
  \/ \E t \in TaskIds, a \in {0, 1} : CallAddFunds(t, a)
  \/ \E t \in TaskIds : AddFundsNotify(t)
  \/ \E t \in TaskIds : CallDeductFunds(t, 1)
  \/ \E t \in TaskIds : DeductFundsNotify(t)
  \/ \E t \in TaskIds : CallCreateToken(t, 1)
  \/ \E t \in TaskIds : CreateTokenNotify(t)
  \/ \E t \in TaskIds : CallUpdateToken(t, 101, [value |-> 2])
  \/ \E t \in TaskIds : UpdateTokenNotify(t)
  \/ \E k \in 1..2 : Resume(k)

SpecIntegration == InitIntegration /\ [][NextIntegration]_vars

\* -------------------------------------------------------- unsubscribing
\* on('integration:ping', cbA) and on('*', cbB) have been called, each
\* service has two subscribers, one that throws and one that returns, and
\* the token service holds a token
UnsubscribeSetup ==
  << << << "integration", "ping" >>, "cbA" >>, << AllKey, "cbB" >> >>
Live ==
  { UnsubscribeSetup[i] : i \in 1..Len(UnsubscribeSetup) }
    \cup { << SubKey(svc), l >> : svc \in {"auth", "token", "wallet"},
                                  l \in {"subBad", "subOk"} }

InitUnsubscribe ==
  Assign([InitState EXCEPT
            !.tokenCache = << [key |-> 101, token |-> [id |-> 101,
                                                      value |-> 1]] >>,
            !.tokenStore = << JsonText(<< [id |-> 101, value |-> 1] >>) >>,
            !.tokSeq = 1,
            !.authListeners = << "subBad", "subOk" >>,
            !.walletListeners = << "subBad", "subOk" >>,
            !.tokenListeners = << "subBad", "subOk" >>,
            !.listeners = Registered(UnsubscribeSetup),
            !.regOrder = UnsubscribeSetup,
            !.live = Live])

\* MaxRegs calls of subscribe, on and the functions they returned, and
\* MaxEmits calls of signIn, addFunds, updateToken and emit
NextUnsubscribe ==
  \/ \E svc \in {"auth", "token", "wallet"} : Subscribe(svc, "subBad")
  \/ \E svc \in {"auth", "token", "wallet"} : Unsubscribe(svc, "subBad")
  \/ \E q \in {<< "integration", "ping" >>, AllKey} : On(q, "cbA")
  \/ \E q \in {<< "integration", "ping" >>, AllKey} : Off(q, "cbA")
  \/ \E t \in TaskIds : SignIn(t, "ann")
  \/ \E t \in TaskIds : nCalls < MaxEmits /\ CallAddFunds(t, 1)
  \/ \E t \in TaskIds : AddFundsNotify(t)
  \/ \E t \in TaskIds :
       nCalls < MaxEmits /\ CallUpdateToken(t, 101, [value |-> 2])
  \/ \E t \in TaskIds : UpdateTokenNotify(t)
  \/ \E t \in TaskIds : Emit(t, "ping")
  \/ \E k \in 1..2 : Resume(k)

SpecUnsubscribe == InitUnsubscribe /\ [][NextUnsubscribe]_vars

\* ------------------------------------------------- amounts and metadata
\* the amounts a caller may pass: integers, NaN and a string
AnyAmounts == {0 - 1, 0, 1, NaN, NotNumeral}
\* tokenData.value: absent or an integer
AnyValues == {Undefined, 0 - 1, 0, 1}

InitAmounts ==
  Assign([InitState EXCEPT !.walletListeners = << "subOk" >>])

NextAmounts ==
  \/ \E t \in TaskIds, a \in AnyAmounts : CallAddFunds(t, a)
  \/ \E t \in TaskIds, a \in AnyAmounts : CallDeductFunds(t, a)
  \/ \E t \in TaskIds, v \in AnyValues : CallPurchaseToken(t, v)
  \/ \E t \in TaskIds : AddFundsNotify(t)
  \/ \E t \in TaskIds : DeductFundsNotify(t)
  \/ \E t \in TaskIds : PurchaseCreateToken(t)
  \/ \E t \in TaskIds : CreateTokenNotify(t)
  \/ \E t \in TaskIds : PurchaseAfterToken(t)

SpecAmounts == InitAmounts /\ [][NextAmounts]_vars

\* the metadata a caller may pass with an amount
Metadata == {NoMetadata, [purpose |-> "gift"], [type |-> "refund"]}

NextLedger ==
  \/ \E t \in TaskIds, a \in 1..MaxAmount, m \in Metadata :
       CallAddFundsWith(t, a, m)
  \/ \E t \in TaskIds, a \in 1..MaxAmount, m \in Metadata :
       CallDeductFundsWith(t, a, m)
  \/ \E t \in TaskIds, v \in Amounts : CallPurchaseToken(t, v)
  \/ \E t \in TaskIds : AddFundsNotify(t)
  \/ \E t \in TaskIds : DeductFundsNotify(t)
  \/ \E t \in TaskIds : PurchaseCreateToken(t)
  \/ \E t \in TaskIds : CreateTokenNotify(t)
  \/ \E t \in TaskIds : PurchaseAfterToken(t)

SpecLedger == InitAmounts /\ [][NextLedger]_vars

\* ------------------------------------------- the wallet's token service
InitPurchase ==
  \E kind \in TokenServiceKinds :
     Assign([InitState EXCEPT !.tokenService = kind])

NextPurchase ==
  \/ \E t \in TaskIds, a \in 1..MaxAmount : CallAddFunds(t, a)
  \/ \E t \in TaskIds, v \in 1..MaxAmount : CallPurchaseToken(t, v)
  \/ \E t \in TaskIds : AddFundsNotify(t)
  \/ \E t \in TaskIds : DeductFundsNotify(t)
  \/ \E t \in TaskIds : PurchaseCreateToken(t)
  \/ \E t \in TaskIds : CreateTokenNotify(t)
  \/ \E t \in TaskIds : PurchaseAfterToken(t)

SpecPurchase == InitPurchase /\ [][NextPurchase]_vars

\* ------------------------------------------------------------ the loader
\* PewpiShared.initialize(options): the calls are made in the order of
\* their numbers
LoaderInitialize(c) ==
  /\ loader.calls[c].pc = "idle"
  /\ \A b \in LoaderIds : b < c => loader.calls[b].pc # "idle"
  /\ Commit(LoaderBegin(Cur, c))

\* the initialize() of a service settles and the loop goes on; at most
\* MaxFaults of these calls fail
LoaderResume(c) ==
  /\ loader.calls[c].pc = "await"
  /\ \E outcome \in IF loader.faults < MaxFaults THEN InitOutcomes
                     ELSE {"ok"} :
       Commit(LoaderResumed([Cur EXCEPT !.tick = ~@], c, outcome))

\* the classes that are loaded when initialize is first called, all or all
\* but one, and whether a constructor throws
InitLoader ==
  \E classes \in {ServiceNames} \cup
                  { ServiceNames \ {n} : n \in ServiceNames },
     throws \in BOOLEAN :
    Assign([InitState EXCEPT !.loader.classes = classes,
                             !.loader.ctorThrows = throws])

NextLoader ==
  \/ \E c \in LoaderIds : LoaderInitialize(c)
  \/ \E c \in LoaderIds : LoaderResume(c)

SpecLoader == InitLoader /\ [][NextLoader]_vars

\* ------------------------------------------------------------ the reload
\* new TokenService({storage}) (ui-shims.js 652-657)
TokenConstruct(st) ==
  [st EXCEPT !.tokenCache = << >>, !.tokenListeners = << >>]

\* a new WalletUnified on the same storage, and its initialize(), once the
\* calls made on the instance before have returned
WalletRestart(t) ==
  /\ Free(t)
  /\ \A u \in TaskIds : Settled(u)
  /\ Commit(Succeed(WalletInitializeBody(
                      WalletConstruct(NewCall(Cur, t, "walletRestart", 0))),
                    t))

\* a new TokenService on the same storage, and its initialize()
TokenRestart(t) ==
  /\ Free(t)
  /\ \A u \in TaskIds : Settled(u)
  /\ Commit(Succeed(TokenInitializeBody(
                      TokenConstruct(NewCall(Cur, t, "tokenRestart", 0))),
                    t))

\* a storage that does not fail; the services are used and replaced by new
\* instances on the same storage
InitReload == Assign(InitState)

NextReload ==
  \/ \E t \in TaskIds, a \in 1..MaxAmount : CallAddFunds(t, a)
  \/ \E t \in TaskIds : AddFundsNotify(t)
  \/ \E t \in TaskIds : CallDeductFunds(t, 1)
  \/ \E t \in TaskIds : DeductFundsNotify(t)
  \/ \E t \in TaskIds, id \in {0, 102} : CallCreateTokenWithId(t, id, 1)
  \/ \E t \in TaskIds : CreateTokenNotify(t)
  \/ \E t \in TaskIds, id \in TokenIds, u \in Updates :
       CallUpdateToken(t, id, u)
  \/ \E t \in TaskIds : UpdateTokenNotify(t)
  \/ \E t \in TaskIds : WalletRestart(t)
  \/ \E t \in TaskIds : TokenRestart(t)

SpecReload == InitReload /\ [][NextReload]_vars

\* ------------------------------------------------------ wallet properties
\* the call made in this step, if any, is call t with operation op
Called(t, op) == Free(t) /\ nCalls' = nCalls + 1 /\ task'[t].op = op

\* C1: the balance is never negative, whatever the interleaving of addFunds,
\* deductFunds and purchaseToken; and a deductFunds whose amount exceeds the
\* balance returns 'Insufficient funds' and changes neither the balance nor
\* the transaction list.
C1_DeductRefused ==
  \A t \in TaskIds :
    (Called(t, "deductFunds") /\ task'[t].arg > balance)
      => /\ task'[t].pc = "done" /\ task'[t].res = "fail"
         /\ task'[t].err = "Insufficient funds"
         /\ balance' = balance /\ transactions' = transactions
C1_BalanceNeverNegative == [](balance >= 0) /\ [][C1_DeductRefused]_vars
\* funds were added, some were deducted, and a deduction beyond the balance
\* that was left has been refused
C1_Witness ==
  /\ balance > 0
  /\ \E i \in 1..Len(transactions) : transactions[i].type = "debit"
  /\ \E t \in TaskIds : /\ task[t].op = "deductFunds"
                        /\ task[t].err = "Insufficient funds"
                        /\ task[t].arg > balance

\* C2: when createToken fails inside purchaseToken, purchaseToken returns
\* the failure and, no other call having been interleaved, the balance is
\* the one before the purchase and the ledger is the one before followed by
\* the debit and a credit of the same amount.
C2_RolledBack ==
  \A t \in TaskIds :
    (/\ task[t].op = "purchaseToken" /\ ~task[t].tokOk /\ task[t].clean
     /\ task[t].pc # "done" /\ task'[t].pc = "done" /\ task'[t].op = "purchaseToken")
      => /\ task'[t].res = "fail"
         /\ balance' = task[t].bal0
         /\ Len(transactions') = Len(task[t].tx0) + 2
         /\ IsPrefix(task[t].tx0, transactions')
         /\ LET d == transactions'[Len(task[t].tx0) + 1]
                c == transactions'[Len(task[t].tx0) + 2]
            IN /\ d.type = "debit" /\ d.amount = task[t].arg
               /\ c.type = "credit" /\ c.amount = task[t].arg
               /\ c.purpose = "token_purchase_rollback"
C2_PurchaseRollback == [][C2_RolledBack]_vars
\* a purchase from a funded wallet was rolled back with nothing interleaved
C2_Witness ==
  \E t \in TaskIds :
    /\ task[t].op = "purchaseToken" /\ task[t].pc = "done"
    /\ task[t].rolled /\ task[t].clean /\ task[t].res = "fail"
    /\ balance > 0 /\ Len(transactions) >= 3

\* C3: the transaction list only grows at its end, one transaction per
\* successful addFunds/deductFunds and none per failed one, and its order
\* is the order in which the calls were made.
C3_AppendOnly ==
  /\ IsPrefix(transactions, transactions')
  /\ Len(transactions') <= Len(transactions) + 1
TxOfCall(c) == { i \in 1..Len(transactions) : transactions[i].call = c }
C3_Ordered ==
  /\ \A i, j \in 1..Len(transactions) :
        i < j => transactions[i].call < transactions[j].call
  /\ \A t \in TaskIds :
        (task[t].pc = "done" /\ task[t].op \in {"addFunds", "deductFunds"})
          => IF task[t].res = "ok"
             THEN /\ Cardinality(TxOfCall(task[t].call)) = 1
                  /\ \A i \in TxOfCall(task[t].call) :
                        /\ transactions[i].amount = task[t].arg
                        /\ transactions[i].type =
                             (IF task[t].op = "addFunds" THEN "credit"
                              ELSE "debit")
             ELSE TxOfCall(task[t].call) = {}
Expected(ls, ev) ==
  ls[<< ev.service, ev.type >>] \o ls[<< ev.service, "*" >>] \o ls[AllKey]

\* the registrations matching ev, in the order on() was called
MatchesEvent(r, ev) ==
  r[1] \in {<< ev.service, ev.type >>, << ev.service, "*" >>, AllKey}
InRegistrationOrder(regs, ev) ==
  LET m == SelectSeq(regs, LAMBDA r : MatchesEvent(r, ev))
  IN [i \in 1..Len(m) |-> m[i][2]]

\* C4 (as the code has it): with no on()/off() during the dispatch, the
\* callbacks called for an event are those registered under 's:t', then
\* those under 's:*', then those under '*', each list in the order of
\* registration and nothing else; a callback is called once for each of the
\* three keys it is registered under, and the key 's:*' counts twice for an
\* event whose own type is '*'.
C4_DispatchByPattern ==
  /\ lastDispatch.clean
       => lastDispatch.inv = Expected(listeners, lastDispatch.ev)
  /\ \A k \in 1..Len(drains) :
       (drains[k].clean /\ drains[k].ev # NoEvent)
         => IsPrefix(drains[k].inv, Expected(listeners, drains[k].ev))
\* an event was delivered to callbacks of two different keys, one of them
\* registered under '*' before the other one was registered
C4_Witness ==
  /\ lastDispatch.clean
  /\ lastDispatch.ev.type = "ping"
  /\ Len(lastDispatch.inv) = 2
  /\ listeners[AllKey] # << >>
  /\ listeners[<< "integration", "ping" >>] # << >>
  /\ regOrder[1][1] = AllKey
\* C4 as stated: the matching callbacks are called once each, in the order
\* in which they were registered.
C4_RegistrationOrder ==
  lastDispatch.clean
    => lastDispatch.inv = InRegistrationOrder(regOrder, lastDispatch.ev)

\* Event ids number the events in the order _handleEvent accepted them.
QueueIds == { eventQueue[i].id : i \in 1..Len(eventQueue) }
DispatchedIds == { dispatched[i] : i \in 1..Len(dispatched) }

\* C6: events are dispatched in the order they were enqueued, also those
\* raised while a dispatch is in progress: events leave the queue in the
\* order of acceptance, and no callback is called for an event after a
\* callback was called for an event accepted later.
C6_Fifo ==
  /\ \A i \in 1..Len(dispatched) : dispatched[i] = i
  /\ \A i \in 1..Len(eventQueue) : eventQueue[i].id = Len(dispatched) + i
  /\ \A i, j \in 1..Len(ilog) : i < j => ilog[i].ev <= ilog[j].ev
\* three events were dispatched, one of them raised by a callback during a
\* dispatch, and callbacks were called for two different events
C6_Witness ==
  /\ Len(dispatched) >= 3
  /\ \E i, j \in 1..Len(ilog) :
       i < j /\ ilog[i].ev < ilog[j].ev /\ ilog[j].cause # 0

\* C7: at most one drain is active and isProcessing tells whether one is;
\* the callbacks of one event are called without those of another event in
\* between, and an event raised by a callback waits in the queue until the
\* event being dispatched has been delivered to its remaining callbacks.
C7_SingleDrain ==
  /\ Len(drains) <= 1
  /\ isProcessing <=> (Len(drains) = 1)
  /\ \A i, j \in 1..Len(ilog) :
       (i < j /\ ilog[i].ev = ilog[j].ev) => ilog[j - 1].ev = ilog[i].ev
  /\ \A i, j \in 1..Len(ilog) : i < j => ilog[i].cause # ilog[j].ev
  /\ \A k \in 1..Len(drains) :
       /\ drains[k].ev.id \notin QueueIds
       /\ \A i \in 1..Len(ilog) : ilog[i].cause # drains[k].ev.id
\* a callback has raised an event during the dispatch of another one, which
\* still has callbacks to call: the new event waits in the queue
C7_Witness ==
  /\ Len(drains) = 1
  /\ \E i \in 1..Len(eventQueue) : eventQueue[i].cause = drains[1].ev.id
  /\ NextPos(listeners, drains[1].ev, drains[1].pi, drains[1].ci).pi <= 3

\* C8: every accepted event is dispatched exactly once.  It is in the queue
\* or has been dispatched, never both and never twice; while events wait a
\* drain is running; and when every callback returns, whatever arrives
\* during a drain, the queue is emptied, every accepted event has been
\* dispatched and isProcessing is false again.
Pending == Len(dispatched) < evtSeq \/ isProcessing
Quiescent ==
  eventQueue = << >> /\ ~isProcessing /\ DispatchedIds = 1..evtSeq
C8_Accounted ==
  /\ \A i, j \in 1..Len(dispatched) : i # j => dispatched[i] # dispatched[j]
  /\ \A i, j \in 1..Len(eventQueue) :
       i # j => eventQueue[i].id # eventQueue[j].id
  /\ QueueIds \cup DispatchedIds = 1..evtSeq
  /\ QueueIds \cap DispatchedIds = {}
  /\ eventQueue # << >> => (isProcessing /\ drains # << >>)
C8_ExactlyOnce == []C8_Accounted /\ (Pending ~> Quiescent)
\* events that arrived during a drain, one of them raised by a callback,
\* have all been dispatched and the drain has ended
C8_Witness ==
  /\ Quiescent
  /\ evtSeq >= 3
  /\ \E i \in 1..Len(ilog) : ilog[i].cause # 0

\* C10: a callback that throws stops nothing.  Every callback registered
\* for the event is still called, the events behind it are dispatched and
\* the flag is released when the drain ends; every listener subscribed to a
\* service is called although one before it threw; and emit, signIn,
\* addFunds and createToken return what they return without the throwing
\* listener.
RegisteredFor(ev) ==
  { r \in { regOrder[i] : i \in 1..Len(regOrder) } : MatchesEvent(r, ev) }
C10_Isolated ==
  /\ lastDispatch.ev # NoEvent
       => \A r \in RegisteredFor(lastDispatch.ev) :
             SeqHas(lastDispatch.inv, r[2])
  /\ lastNotify.invoked = lastNotify.subscribed
  /\ drains = << >>
       => (~isProcessing /\ eventQueue = << >> /\ Len(dispatched) = evtSeq)
  /\ \A t \in TaskIds :
       task[t].pc = "done"
         => /\ task[t].err # "listener error"
            /\ task[t].op \in {"emit", "signIn", "addFunds"}
                 => task[t].res = "ok"
            /\ (task[t].op = "createToken" /\ task[t].res = "fail")
                 => task[t].err = "token error"
\* addFunds returned success although the first listener of the wallet
\* threw; its event reached the three callbacks under '*', the first of
\* which threw; and an emit returned success
C10_Witness ==
  /\ lastNotify.threw /\ lastNotify.invoked = 3
  /\ lastDispatch.ev.service = "wallet"
  /\ lastDispatch.inv = << "cbThrow", "cbEmit", "cbA" >>
  /\ \E t, u \in TaskIds :
       /\ task[t].op = "addFunds" /\ task[t].res = "ok"
       /\ task[u].op = "emit" /\ task[u].res = "ok"

\* ------------------------------------------------ MachineAdapter properties
\* the step is the call transition(a), made with no handler registered for
\* the current state and a
RefusedTransition(a) ==
  /\ \A u \in TaskIds : Settled(u)
  /\ task'[1] # task[1]
  /\ task'[1].op = "transition" /\ task'[1].kind = a
  /\ << currentState, a >> \notin transitions

\* C5: transition(action) with no handler registered for the current state
\* and the action, as for every action before initialize(), returns
\* {success: false, error}; the state and the history are unchanged, no
\* service is called (no user, session or notification changes) and no
\* event is raised or delivered.
C5_Refused ==
  \A a \in MachineActions :
    RefusedTransition(a)
      => /\ task'[1].pc = "done" /\ task'[1].res = "fail"
         /\ task'[1].err = "No transition"
         /\ currentState' = currentState /\ stateHistory' = stateHistory
         /\ allChanges' = allChanges
         /\ currentUser' = currentUser /\ authStore' = authStore
         /\ lastNotify' = lastNotify
         /\ evtSeq' = evtSeq /\ eventQueue' = eventQueue /\ ilog' = ilog
C5_FailsClosed == [][C5_Refused]_vars
\* signin has been refused in the state authenticated, after it had been
\* accepted in the state initialized
C5_Witness ==
  /\ currentState = "authenticated"
  /\ transitions # {}
  /\ task[1].op = "transition" /\ task[1].kind = "signin"
  /\ task[1].pc = "done" /\ task[1].res = "fail"
  /\ task[1].err = "No transition"

\* the last n entries of a sequence
LastOf(s, n) == IF Len(s) <= n THEN s ELSE SubSeq(s, Len(s) - n + 1, Len(s))

\* C9: the state history never holds more than 100 entries, and it is the
\* most recent 100 state changes (all of them while there are fewer) in
\* the order they happened: the oldest entry is the one dropped.
C9_HistoryBounded ==
  /\ Len(stateHistory) <= 100
  /\ stateHistory = LastOf(allChanges, 100)
\* more than 100 state changes have happened and the oldest were dropped
C9_Witness ==
  /\ Len(allChanges) > 100
  /\ Len(stateHistory) = 100
  /\ stateHistory[1].n = Len(allChanges) - 99
  /\ stateHistory[100].n = Len(allChanges)

\* ------------------------------------------------------- result objects
\* C11: every call resolves to {success: true, ...} without an error or to
\* {success: false, error}, and success is true only when the operation was
\* carried out; also transition() when the service call of its handler
\* failed or the service it needs is not there.
C11_ResultShape ==
  \A t \in TaskIds :
    task[t].pc = "done"
      => /\ task[t].res \in {"ok", "fail"}
         /\ task[t].res = "ok" => task[t].err = "none"
         /\ task[t].res = "fail" => task[t].err # "none"

\* ------------------------------------------------- storage properties
\* the calls that write to the storage
MutatingCalls ==
  {"signIn", "signOut", "createToken", "updateToken", "addFunds",
   "deductFunds"}

\* C12: a storage write that fails during signIn, signOut, createToken,
\* updateToken, addFunds or deductFunds is swallowed: the call still
\* returns {success: true}, so that a call of these fails only for what it
\* was given (no credentials, an invalid amount, insufficient funds, an
\* unknown token, a token that could not be built).
C12_WriteFailureSwallowed ==
  \A t \in TaskIds :
    (task[t].pc = "done" /\ task[t].op \in MutatingCalls
                         /\ task[t].res = "fail")
      => task[t].err \in {"no credentials", "Invalid amount",
                          "Insufficient funds", "Token not found",
                          "token error"}

\* the token list that _persistTokens writes for a cache
CachedTokens(cache) == [i \in 1..Len(cache) |-> cache[i].token]

\* C13: with a storage that does not fail, between the steps of any
\* interleaving of calls the stored wallet data decodes to the balance and
\* the transactions in memory, the stored token list to the cached tokens
\* and the stored session to the current user (none stored when signed
\* out), once the service has made its first mutating call.
C13_StorageMirrorsMemory ==
  ~storageFlaky
    => /\ walletStore # << >>
            => JsonParse(walletStore[1]) =
                 [balance |-> balance, transactions |-> transactions]
       /\ tokenStore # << >>
            => JsonParse(tokenStore[1]) = CachedTokens(tokenCache)
       /\ IF authStore = << >> THEN currentUser = Null
          ELSE UserParse(authStore[1]) = currentUser

\* C14: after a signIn that succeeded, initialize() of a new AuthService on
\* the same storage yields as current user the user signIn returned; a
\* signOut that succeeded leaves isAuthenticated() false and no stored
\* session, and a later initialize() of a new AuthService yields no user.
C14_Restored ==
  \A t \in TaskIds, u \in TaskIds, h \in Handles :
    (/\ Called(t, "authRestart")
     /\ task[u].op = "signIn" /\ task[u].pc = "done" /\ task[u].res = "ok"
     /\ task[u].kind = h /\ currentUser = h)
      => currentUser' = h
C14_SignedOut ==
  \A t \in TaskIds :
    (Called(t, "signOut") /\ task'[t].res = "ok")
      => ~IsAuthenticated(currentUser') /\ authStore' = << >>
C14_NoSession ==
  \A t \in TaskIds, u \in TaskIds :
    (/\ Called(t, "authRestart")
     /\ task[u].op = "signOut" /\ task[u].pc = "done" /\ task[u].res = "ok"
     /\ currentUser = Null)
      => currentUser' = Null
C14_SessionRoundTrip ==
  [][C14_Restored /\ C14_SignedOut /\ C14_NoSession]_vars

\* ---------------------------------------------------- token properties
\* the ids under which the token map holds a token
TokenKeys(cache) == {cache[i].key : i \in 1..Len(cache)}

\* C15: every token of the token map is stored under its own id, after any
\* sequence of createToken, updateToken with any update fields and
\* initialize; getToken(id) returns null or a token whose id is id.
C15_KeyIsId ==
  /\ \A i \in 1..Len(tokenCache) : tokenCache[i].key = tokenCache[i].token.id
  /\ \A t \in TaskIds :
       (task[t].op = "getToken" /\ task[t].pc = "done")
         => task[t].tid \in {NoToken.id, task[t].arg}

\* C16: tokens are never deleted: the ids under which the map holds a token
\* only grow in number under createToken, updateToken, getToken,
\* getAllTokens and purchaseToken; updateToken on an unknown id returns
\* 'Token not found', creates no token and changes nothing.
C16_IdsGrow == TokenKeys(tokenCache) \subseteq TokenKeys(tokenCache')
C16_UnknownId ==
  \A t \in TaskIds :
    (Called(t, "updateToken") /\ ~CacheHas(tokenCache, task'[t].arg))
      => /\ task'[t].pc = "done" /\ task'[t].res = "fail"
         /\ task'[t].err = "Token not found"
         /\ tokenCache' = tokenCache /\ tokenStore' = tokenStore
         /\ lastNotify' = lastNotify
C16_TokensNeverDeleted == [][C16_IdsGrow /\ C16_UnknownId]_vars
\* two tokens are held and an updateToken on an id that was unknown has
\* been refused
C16_Witness ==
  /\ Len(tokenCache) = 2
  /\ \E t \in TaskIds : /\ task[t].op = "updateToken"
                        /\ task[t].err = "Token not found"

\* ------------------------------------------- integration event properties
\* the callbacks that were called with the event of the given id
CalledWith(id) == { ilog[j].cb : j \in { i \in 1..Len(ilog) : ilog[i].ev = id } }

\* C17: with the IntegrationListener initialized with the auth service, a
\* listener registered with on('auth:signin', cb) is invoked when a user
\* signs in through signIn, with an event whose data is that user: once
\* the events raised have been dispatched, cb has been called with the
\* event of every sign-in.
C17_SignInReachesListener ==
  drains = << >>
    => \A i \in 1..Len(raised) :
         (raised[i].service = "auth" /\ raised[i].type = "auth_signin")
           => /\ raised[i].data.user \in Handles
              /\ "cbA" \in CalledWith(raised[i].id)

\* the service and the event name of the event a mutating call raises
EventOf(op) ==
  CASE op = "signIn" -> << "auth", "auth_signin" >>
    [] op = "signOut" -> << "auth", "auth_signout" >>
    [] op = "createToken" -> << "token", "token_created" >>
    [] op = "updateToken" -> << "token", "token_updated" >>
    [] op = "addFunds" -> << "wallet", "funds_added" >>
    [] op = "deductFunds" -> << "wallet", "funds_deducted" >>
\* the step is the one in which call t of a mutating method returns
Completes(t) ==
  /\ task'[t].pc = "done" /\ task'[t].op \in MutatingCalls
  /\ Called(t, task'[t].op) \/ ~Settled(t)

\* C18: with the IntegrationListener initialized, every signIn, signOut,
\* createToken, updateToken, addFunds and deductFunds that returns success
\* raises exactly one integration event, of its service and with its event
\* name as type; one that returns {success: false} raises none, and no
\* event is raised otherwise.
C18_OnePerCall ==
  /\ \A t \in TaskIds :
       Completes(t)
         => IF task'[t].res = "ok"
            THEN /\ Len(raised') = Len(raised) + 1
                 /\ SubSeq(raised', 1, Len(raised)) = raised
                 /\ << raised'[Len(raised')].service,
                       raised'[Len(raised')].type >> = EventOf(task'[t].op)
            ELSE raised' = raised
  /\ (\A t \in TaskIds : ~Completes(t)) => raised' = raised
C18_ExactlyOneEvent == [][C18_OnePerCall]_vars
\* a created token was updated, each call raising its event, and a call
\* that failed raised none
C18_Witness ==
  /\ Len(raised) = 2
  /\ raised[1].type = "token_created" /\ raised[2].type = "token_updated"
  /\ \E t \in TaskIds : /\ task[t].pc = "done" /\ task[t].res = "fail"
                        /\ task[t].op \in MutatingCalls

\* ------------------------------------------------ state change properties
IsStateChange(e) == e.type = "state_change"
\* the state_change events in the order they were raised, and in the order
\* they were taken from the queue for dispatch
StateChangesRaised == SelectSeq(raised, IsStateChange)
DispatchedEvents == [i \in 1..Len(dispatched) |-> raised[dispatched[i]]]
StateChangesDispatched == SelectSeq(DispatchedEvents, IsStateChange)

\* C19: every state change of the adapter (initialize, the next state a
\* handler asked for, an auto-transition) appends one history entry from
\* the state before to the state after and, with an integration listener,
\* emits one state_change event carrying that entry; the state_change
\* events are dispatched in the order the entries were appended.
C19_EntryAndEvent ==
  /\ currentState = IF allChanges = << >> THEN "idle"
                    ELSE allChanges[Len(allChanges)].to
  /\ \A i \in 1..Len(allChanges) :
       /\ allChanges[i].n = i
       /\ allChanges[i].from = IF i = 1 THEN "idle" ELSE allChanges[i - 1].to
  /\ Len(StateChangesRaised) = IF integration THEN Len(allChanges) ELSE 0
  /\ \A i \in 1..Len(StateChangesRaised) :
       StateChangesRaised[i].data = EntryData(allChanges[i])
  /\ IsPrefix(StateChangesDispatched, StateChangesRaised)
\* with an integration listener, a sign-in has changed the state twice, by
\* the auto-transition and by the handler's next state, after initialize,
\* and the three state_change events have been dispatched
C19_Witness ==
  /\ integration
  /\ Len(allChanges) = 3
  /\ \E j \in 1..Len(ilog) : ilog[j].cb = "adapter" /\ ilog[j].ev # 1
  /\ Len(StateChangesDispatched) = 3

\* ----------------------------------------------- unsubscribe properties
\* the listeners recorded under a key, and the elements of a sequence
LiveUnder(key) == { r[2] : r \in { x \in live : x[1] = key } }
Elements(s) == { s[i] : i \in 1..Len(s) }

\* C20: the function returned by subscribe() of a service, or by on(),
\* removes exactly that listener: it is called for no event raised after the
\* call, and the other listeners go on being called.  A notification of a
\* service calls the listeners subscribed and not unsubscribed, and an
\* event dispatched with no on() or unsubscribe call in between has reached
\* the callbacks registered, and not unregistered, under its three keys.
C20_Notified ==
  lastNotify' # lastNotify
    => Elements(lastNotify'.called) = LiveUnder(SubKey(lastNotify'.service))
C20_Dispatched ==
  (lastDispatch.ev # NoEvent /\ lastDispatch.clean)
    => Elements(lastDispatch.inv) =
         UNION { LiveUnder(Patterns(lastDispatch.ev)[i]) : i \in 1..3 }
C20_Unsubscribed == [][C20_Notified]_vars /\ [](C20_Dispatched)
\* after the subscriber that throws was unsubscribed from the wallet, a
\* notification of the wallet called the other one alone; and after cbA was
\* unregistered, an event was dispatched to cbB alone
C20_Witness ==
  /\ << SubKey("wallet"), "subBad" >> \notin live
  /\ lastNotify.service = "wallet" /\ lastNotify.called = << "subOk" >>
  /\ << << "integration", "ping" >>, "cbA" >> \notin live
  /\ lastDispatch.clean /\ lastDispatch.ev.type = "ping"
  /\ lastDispatch.inv = << "cbB" >>

\* C26: with the integration listener subscribed to the auth service and
\* the adapter initialized, one successful transition('signin') from
\* 'initialized' changes the state once: one history entry, initialized to
\* authenticated, and one state_change event; and one successful
\* transition('signout') appends one entry, authenticated to initialized.
C26_SingleChange ==
  \A t \in TaskIds :
    (/\ integration /\ drains = << >>
     /\ task[t].op = "transition" /\ task[t].kind \in {"signin", "signout"}
     /\ task[t].pc = "done" /\ task[t].res = "ok" /\ task[t].err = "none")
      => /\ Len(allChanges) = task[t].arg + 1
         /\ Len(StateChangesRaised) = task[t].arg + 1
         /\ allChanges[task[t].arg + 1].to =
              IF task[t].kind = "signin" THEN "authenticated"
              ELSE "initialized"

\* C27: once the auth service, the integration listener and the adapter
\* have been initialized, whenever no call is in flight the adapter is in
\* the state 'authenticated' exactly when isAuthenticated() is true, also
\* after sign-in and sign-out calls that failed.
C27_StateFollowsSession ==
  (/\ integration /\ transitions # {}
   /\ \A t \in TaskIds : Settled(t)
   /\ drains = << >> /\ eventQueue = << >>)
    => (currentState = "authenticated" <=> IsAuthenticated(currentUser))

\* C28: a signIn or signOut that returns {success: false} leaves the
\* session as it was: the current user, the stored session, and no
\* auth_signin or auth_signout notification.
C28_Unchanged ==
  \A t \in TaskIds :
    (/\ Called(t, "signIn") \/ Called(t, "signOut")
     /\ task'[t].pc = "done" /\ task'[t].res = "fail")
      => /\ currentUser' = currentUser
         /\ IsAuthenticated(currentUser') = IsAuthenticated(currentUser)
         /\ authStore' = authStore
         /\ lastNotify' = lastNotify
C28_FailedCallKeepsSession == [][C28_Unchanged]_vars

\* the event has been taken from the queue and no dispatch of it is going on
Delivered(id) ==
  /\ id \in DispatchedIds
  /\ \A k \in 1..Len(drains) : drains[k].ev.id # id

\* C30: when emit(type, data) resolves, the emitted event has been
\* delivered to every matching listener, also when emit was called while a
\* dispatch was in progress.
C30_DeliveredWhenResolved ==
  \A t \in TaskIds :
    (task[t].op = "emit" /\ task[t].pc = "done") => Delivered(task[t].arg)

\* ------------------------------------------------- amounts and the ledger
\* the amount is not a number or is less than or equal to 0
NotPositiveNumber(a) == a \in {Undefined, NaN, NotNumeral} \/ a <= 0
WalletUntouched ==
  /\ balance' = balance /\ transactions' = transactions
  /\ walletStore' = walletStore /\ lastNotify' = lastNotify

\* C22: addFunds and deductFunds reject every amount that is not a number or
\* is less than or equal to 0 with 'Invalid amount', changing neither the
\* balance, the transaction list nor the storage and notifying no listener;
\* so does purchaseToken with a token value that is 0, absent or negative,
\* and then no token is created.
C22_Rejected ==
  \A t \in TaskIds :
    /\ (/\ Called(t, "addFunds") \/ Called(t, "deductFunds")
        /\ NotPositiveNumber(task'[t].arg))
         => /\ task'[t].pc = "done" /\ task'[t].res = "fail"
            /\ task'[t].err = "Invalid amount"
            /\ WalletUntouched
    /\ (/\ Called(t, "purchaseToken")
        /\ task'[t].arg = Undefined \/ task'[t].arg <= 0)
         => /\ task'[t].pc = "done" /\ task'[t].res = "fail"
            /\ task'[t].err = "Invalid amount"
            /\ WalletUntouched
            /\ tokenCache' = tokenCache /\ tokenStore' = tokenStore
C22_AmountsValidated == [][C22_Rejected]_vars

\* the sum of the amounts of the transactions of one type
RECURSIVE TypeSum(_, _)
TypeSum(txs, type) ==
  IF txs = << >> THEN 0
  ELSE JsAdd(TypeSum(Tail(txs), type),
             IF Head(txs).type = type THEN Head(txs).amount ELSE 0)

\* C25: from an empty wallet, after any sequence and interleaving of
\* addFunds, deductFunds and purchaseToken, the balance is the sum of the
\* amounts of the 'credit' transactions minus that of the 'debit' ones.
C25_LedgerConsistent ==
  /\ balance # NaN
  /\ balance = JsSub(TypeSum(transactions, "credit"),
                     TypeSum(transactions, "debit"))

\* C24: when createToken throws during purchaseToken, or the token service
\* has no createToken method, purchaseToken returns {success: false, error}
\* and, no other call having been interleaved, the balance and the
\* transaction list are the ones before the call.
C24_NothingTaken ==
  \A t \in TaskIds :
    (/\ task[t].op = "purchaseToken" /\ task[t].pc = "createToken"
     /\ CreateTokenThrows(tokenService) /\ task[t].clean
     /\ task'[t].pc = "done")
      => /\ task'[t].res = "fail"
         /\ balance' = task[t].bal0
         /\ transactions' = task[t].tx0
C24_FailedPurchaseTakesNothing == [][C24_NothingTaken]_vars

\* ------------------------------------------------ the adapter's services
\* transition(action) is called in this step
Begun(action) ==
  /\ \A u \in TaskIds : Settled(u)
  /\ task'[1].op = "transition" /\ task'[1].kind = action
  /\ task'[1].arg = Len(allChanges)
\* the call is refused and no service is changed
Refused ==
  /\ task'[1].pc = "done" /\ task'[1].res = "fail"
  /\ task'[1].err = "No transition"
  /\ nCalls' = nCalls
  /\ tokenCache' = tokenCache /\ tokenStore' = tokenStore
  /\ balance' = balance /\ transactions' = transactions
  /\ currentUser' = currentUser /\ authStore' = authStore

\* C23: through transition, create_token, add_funds and purchase_token reach
\* the token and wallet services only in state 'authenticated'; in 'idle'
\* and 'initialized' they return an error and change neither the tokens, the
\* balance nor the transaction list; when accepted they leave currentState
\* and the state history as they are.  signin is accepted only in
\* 'initialized' and signout only in 'authenticated'.
C23_Guarded ==
  /\ \A a \in ServiceActions :
       /\ (Begun(a) /\ currentState # "authenticated") => Refused
       /\ (Begun(a) /\ currentState = "authenticated")
            => /\ nCalls' = nCalls + 1
               /\ task'[ChildOf(1)].op \in {"createToken", "addFunds",
                                            "purchaseToken"}
  /\ (Begun("signin") /\ currentState # "initialized") => Refused
  /\ (Begun("signout") /\ currentState # "authenticated") => Refused
  /\ (task'[1].op = "transition" /\ task'[1].kind \in ServiceActions)
       => /\ currentState' = currentState
          /\ stateHistory' = stateHistory
          /\ allChanges' = allChanges
C23_ServiceActionsGuarded == [][C23_Guarded]_vars
\* add_funds has been accepted and carried out in 'authenticated' and, after
\* signout, add_funds has been refused
C23_Witness ==
  /\ balance > 0 /\ currentState = "initialized"
  /\ task[1].op = "transition" /\ task[1].kind = "add_funds"
  /\ task[1].pc = "done" /\ task[1].err = "No transition"

\* ------------------------------------------------------------ the loader
\* the services whose initialize() was called for the instance set, in the
\* order of the calls
RECURSIVE InitializedOf(_, _)
InitializedOf(log, set) ==
  IF log = << >> THEN << >>
  ELSE IF Head(log).set = set
       THEN << Head(log).name >> \o InitializedOf(Tail(log), set)
       ELSE InitializedOf(Tail(log), set)
Loaded(n) == n \in loader.classes

\* C21: PewpiShared.initialize never rejects; when the initialize of a
\* service throws or returns success: false, or a service class is not
\* loaded, the other services are still initialized in the order auth,
\* token, wallet, integration, machine, the outcome of each is recorded in
\* results.services and the loader ends marked initialized.
C21_Defensive ==
  \A c \in LoaderIds :
    LET call == loader.calls[c]
    IN /\ call.pc = "done" => call.message \in {"none", "Already initialized"}
       /\ (call.pc = "done" /\ call.message = "none" /\ ~loader.ctorThrows)
            => /\ call.success
               /\ loader.initialized
               /\ \A n \in ServiceNames :
                     /\ call.results[n] \in
                          {"initialized", "failed", "error", "not_available"}
                     /\ call.results[n] = "not_available" <=> ~Loaded(n)
               /\ InitializedOf(loader.initLog, call.set) =
                    SelectSeq(<< "auth", "token", "wallet", "integration",
                                 "machine" >>, Loaded)
\* a call has returned after the initialize of auth failed, the wallet class
\* not being loaded, and the machine adapter was initialized
C21_Witness ==
  \E c \in LoaderIds :
    /\ loader.calls[c].pc = "done"
    /\ loader.calls[c].results["auth"] \in {"failed", "error"}
    /\ loader.calls[c].results["wallet"] = "not_available"
    /\ loader.calls[c].results["machine"] = "initialized"

\* C29: PewpiShared.initialize constructs and initializes the services at
\* most once: a call made after or while another call is in progress returns
\* 'Already initialized', constructs and initializes nothing and leaves the
\* instances that getService returns in place.
C29_Once ==
  /\ loader.built <= 1
  /\ \A i, j \in 1..Len(loader.initLog) :
        i # j => loader.initLog[i].name # loader.initLog[j].name
  /\ \A n \in ServiceNames : loader.services[n] \in {0, 1}
  /\ \A c \in LoaderIds :
        (loader.calls[c].pc # "idle" /\ loader.calls[c].set # 1
           /\ loader.built > 0)
          => (loader.calls[c].pc = "done"
              /\ loader.calls[c].message = "Already initialized")

TokenMapping(cache) ==
  { << cache[i].key, cache[i].token >> : i \in 1..Len(cache) }

\* C32: initialize() of a new WalletUnified and of a new TokenService on the
\* storage written by the instances before restores the balance, the
\* transaction list in its order and the mapping from ids to tokens that
\* those instances held after their last mutating call.
C32_Restored ==
  \A t \in TaskIds :
    /\ Called(t, "walletRestart")
         => /\ balance' = balance
            /\ transactions' = transactions
    /\ Called(t, "tokenRestart")
         => /\ TokenMapping(tokenCache') = TokenMapping(tokenCache)
            /\ Len(tokenCache') = Len(tokenCache)
C32_ReloadRoundTrip == [][C32_Restored]_vars
====
